---- MODULE Spec2Model ----
(***************************************************************************)
(* A model of ADB-Gripper: the AdbManager wrapper around the external adb  *)
(* tool (src/adb_manager.py) and the batch uninstall worker of the GUI     *)
(* (src/main_app.py).                                                      *)
(*                                                                         *)
(* Text is modelled at character level: a Python str is a TLA+ string, and *)
(* strip / lower / "in" / startswith are computed character by character.  *)
(* An external process is an input: its outcome (exit code, stdout, stderr *)
(* or the exception subprocess.run raises) is drawn from a small set.      *)
(*                                                                         *)
(* The manager's operations share no mutable state except the logcat       *)
(* handle, so one operation is modelled at a time: Ready -> (operation) -> *)
(* Returned -> Ready.  get_device_info and the batch worker issue several  *)
(* blocking commands and are modelled one command at a time.               *)
(***************************************************************************)
EXTENDS Integers, Sequences, FiniteSets, Bags, TLC

VARIABLES
    adb_available,  \* AdbManager.adb_available, set once by __init__
    spawned,        \* TRUE once subprocess.run / Popen was called after __init__
    pc,             \* "ready", "returned", or the position of a multi-step operation
    call,           \* the operation in progress or just returned, with its inputs
    ret,            \* its return value: "True", "False", "None", "list", "dict", "tuple"
    out,            \* the data returned with it (a record; its fields depend on the operation)
    notes,          \* the _update_status calls the operation made, in order
    ran,            \* the number of subprocess.run calls the operation made
    logcat_process, \* AdbManager.logcat_process: "None", or "Popen" once a worker set it
    logcat_threads, \* the logcat worker threads started so far, in start order
    status_callback, \* AdbManager.status_callback: "ok", "raises" (it throws), or "none"
    console,        \* what the operation printed on the console, in order
    gui             \* AdbGripperApp: its fields, widget states, threads and callbacks

vars == <<adb_available, spawned, pc, call, ret, out, notes, ran,
          logcat_process, logcat_threads, status_callback, console, gui>>

(***************************************************************************)
(* Python str methods, character by character.                             *)
(***************************************************************************)

\* Python's None where a str is expected (stdout of a failed run).
None == "<None>"

\* str.strip()'s default character set.
Whitespace == {" ", "\t", "\n", "\r", "\f"}

\* The characters of strip("'\"\r").
QuoteChars == {"'", "\"", "\r"}

RECURSIVE LStrip(_, _)
LStrip(s, cs) ==
    IF s # "" /\ Head(s) \in cs THEN LStrip(Tail(s), cs) ELSE s

RECURSIVE RStrip(_, _)
RStrip(s, cs) ==
    IF s # "" /\ SubSeq(s, Len(s), Len(s)) \in cs
    THEN RStrip(SubSeq(s, 1, Len(s) - 1), cs)
    ELSE s

StripChars(s, cs) == RStrip(LStrip(s, cs), cs)

Strip(s) == StripChars(s, Whitespace)

LowerChar(c) ==
    CASE c = "A" -> "a" [] c = "B" -> "b" [] c = "C" -> "c" [] c = "D" -> "d"
      [] c = "E" -> "e" [] c = "F" -> "f" [] c = "G" -> "g" [] c = "H" -> "h"
      [] c = "I" -> "i" [] c = "J" -> "j" [] c = "K" -> "k" [] c = "L" -> "l"
      [] c = "M" -> "m" [] c = "N" -> "n" [] c = "O" -> "o" [] c = "P" -> "p"
      [] c = "Q" -> "q" [] c = "R" -> "r" [] c = "S" -> "s" [] c = "T" -> "t"
      [] c = "U" -> "u" [] c = "V" -> "v" [] c = "W" -> "w" [] c = "X" -> "x"
      [] c = "Y" -> "y" [] c = "Z" -> "z"
      [] OTHER -> c

RECURSIVE Lower(_)
Lower(s) == IF s = "" THEN "" ELSE LowerChar(Head(s)) \o Lower(Tail(s))

\* Python's `pat in s`.
Contains(pat, s) ==
    \E i \in 1..(Len(s) + 1 - Len(pat)) : SubSeq(s, i, i + Len(pat) - 1) = pat

StartsWith(s, pat) == Len(pat) <= Len(s) /\ SubSeq(s, 1, Len(pat)) = pat

\* The first position of a character of cs in s, or 0.
IndexOf(s, cs) ==
    IF \E i \in 1..Len(s) : SubSeq(s, i, i) \in cs
    THEN CHOOSE i \in 1..Len(s) :
            /\ SubSeq(s, i, i) \in cs
            /\ \A j \in 1..(i - 1) : SubSeq(s, j, j) \notin cs
    ELSE 0

\* s.split(c): every piece between occurrences of the character c.
RECURSIVE Split(_, _)
Split(s, c) ==
    LET i == IndexOf(s, {c}) IN
    IF i = 0 THEN <<s>>
    ELSE <<SubSeq(s, 1, i - 1)>> \o Split(SubSeq(s, i + 1, Len(s)), c)

\* s.split(c, 1).
SplitOnce(s, c) ==
    LET i == IndexOf(s, {c}) IN
    IF i = 0 THEN <<s>> ELSE <<SubSeq(s, 1, i - 1), SubSeq(s, i + 1, Len(s))>>

\* s.split(maxsplit=n): whitespace-separated fields, the last one the remainder.
RECURSIVE SplitFields(_, _)
SplitFields(s, n) ==
    LET t == LStrip(s, Whitespace)
        i == IndexOf(t, Whitespace)
    IN  IF t = "" THEN <<>>
        ELSE IF n = 0 \/ i = 0 THEN <<t>>
        ELSE <<SubSeq(t, 1, i - 1)>> \o SplitFields(SubSeq(t, i + 1, Len(t)), n - 1)

\* s.splitlines(): lines end at "\n", "\r" or "\r\n"; no empty last line.
RECURSIVE SplitLines(_)
SplitLines(s) ==
    LET i == IndexOf(s, {"\n", "\r"}) IN
    IF s = "" THEN <<>>
    ELSE IF i = 0 THEN <<s>>
    ELSE LET crlf == i < Len(s) /\ SubSeq(s, i, i + 1) = "\r\n"
             rest == SubSeq(s, i + (IF crlf THEN 2 ELSE 1), Len(s))
         IN  <<SubSeq(s, 1, i - 1)>> \o SplitLines(rest)

\* Python truthiness of an Optional[str].
Truthy(s) == s # None /\ s # ""

(***************************************************************************)
(* The notification sink and the process runner.                           *)
(***************************************************************************)

\* One _update_status(message, level) call.
Note(msg, level) == [msg |-> msg, level |-> level]

\* What subprocess.run does: the process exits, or the call raises.
Exit(rc, so, se) == [kind |-> "exit", rc |-> rc, out |-> so, err |-> se]
Raises(kind) == [kind |-> kind, rc |-> 0, out |-> "", err |-> ""]
RunFailures == {Raises("notfound"), Raises("timeout"), Raises("other")}

\* The value _run_adb_command hands back, with what it did on the way.
RunResult(so, se, rc, ns, n) ==
    [stdout |-> so, stderr |-> se, returncode |-> rc,
     notes |-> ns, ran |-> n, raised |-> FALSE]

\* subprocess.run returned: the exit code and the error stream decide the report.
RunFinished_Silent(o) ==
    RunResult(o.out, o.err, o.rc,
              IF o.rc = 0 /\ Strip(o.err) # ""
              THEN <<Note("ADB Command Warning: " \o Strip(o.err), "warning")>>
              ELSE <<>>, 1)

RunFinished(o) ==
    IF o.rc # 0
    THEN RunResult(o.out, o.err, o.rc,
            <<Note("ADB Command Error: " \o
                   (IF Strip(o.err) # "" THEN Strip(o.err)
                    ELSE "ADB command failed with return code"),
                   "error")>>, 1)
    ELSE IF Strip(o.err) # ""
    THEN RunResult(o.out, o.err, o.rc,
            <<Note("ADB Command Warning: " \o Strip(o.err), "warning")>>, 1)
    ELSE RunResult(o.out, o.err, o.rc, <<>>, 1)

\* subprocess.run raised: the three except clauses.
RunRaised_NoCatchAll(o) ==
    CASE o.kind = "notfound" ->
            RunResult(None, "ADB command not found", 1,
                <<Note("Error: ADB command not found during execution. Check PATH.",
                       "error")>>, 1)
      [] o.kind = "timeout" ->
            RunResult(None, "Command timed out", 1,
                <<Note("Error: ADB command timed out", "error")>>, 1)
      [] OTHER ->
            [RunResult(None, "unexpected", 1, <<>>, 1) EXCEPT !.raised = TRUE]

RunRaised(o) ==
    CASE o.kind = "notfound" ->
            RunResult(None, "ADB command not found", 1,
                <<Note("Error: ADB command not found during execution. Check PATH.",
                       "error")>>, 1)
      [] o.kind = "timeout" ->
            RunResult(None, "Command timed out", 1,
                <<Note("Error: ADB command timed out", "error")>>, 1)
      [] OTHER ->
            RunResult(None, "unexpected", 1,
                <<Note("An unexpected error occurred while running ADB command",
                       "error")>>, 1)

RunAdbCommand(avail, command, o) ==
    IF ~avail
    THEN RunResult(None, "ADB not available", 1,
                   <<Note("ADB is not available. Cannot run command.", "error")>>, 0)
    ELSE IF command = <<>> \/ Lower(command[1]) # "adb"
    THEN RunResult(None, "Invalid command format", 1,
                   <<Note("Internal Error: Command does not start with 'adb'", "error")>>, 0)
    ELSE IF o.kind = "exit" THEN RunFinished(o) ELSE RunRaised(o)

(***************************************************************************)
(* The manager's single-command operations.  Each takes the tool's         *)
(* availability, its arguments and the outcome o of the one process it may *)
(* run, and gives its return value, its sink calls and its run count.      *)
(***************************************************************************)

\* No operation in progress, and no data returned.
NoCall == [name |-> "none"]
NoOut == [none |-> TRUE]

OpResult(r, ns, n) == [ret |-> r, notes |-> ns, ran |-> n]

\* An operation that ran one command: its own notes before and after the runner's.
Ran(r, pre, run, post) == OpResult(r, pre \o run.notes \o post, run.ran)

\* reboot_device -----------------------------------------------------------

ValidModes == {"", "recovery", "bootloader", "sideload", "sideload-auto-reboot"}

ModeRejected_Never(mode) == FALSE

ModeRejected(mode) == mode \notin ValidModes

\* A variant that judges by the exit code alone.
SentCleanly_ExitCodeOnly(run) == run.returncode = 0

\* The test after the run in reboot_device and in power_off_device.
SentCleanly(run) == run.returncode = 0 /\ Strip(run.stderr) = ""

RebootDevice(avail, serial, mode, o) ==
    IF ~avail THEN OpResult("False", <<>>, 0)
    ELSE IF serial = ""
    THEN OpResult("False", <<Note("Error: No device selected to reboot.", "error")>>, 0)
    ELSE IF ModeRejected(mode)
    THEN OpResult("False", <<Note("Error: Invalid reboot mode", "error")>>, 0)
    ELSE LET command == <<"adb", "-s", serial, "reboot">> \o
                        (IF mode # "" THEN <<mode>> ELSE <<>>)
             run == RunAdbCommand(avail, command, o)
             pre == <<Note("Sending command: Rebooting device", "info")>>
         IN  IF SentCleanly(run)
             THEN Ran("True", pre, run,
                      <<Note("Reboot command sent successfully", "info")>>)
             ELSE Ran("False", pre, run, <<>>)

\* power_off_device --------------------------------------------------------

PowerOffDevice(avail, serial, o) ==
    IF ~avail THEN OpResult("False", <<>>, 0)
    ELSE IF serial = ""
    THEN OpResult("False", <<Note("Error: No device selected to power off.", "error")>>, 0)
    ELSE LET run == RunAdbCommand(avail, <<"adb", "-s", serial, "shell", "reboot", "-p">>, o)
             pre == <<Note("Sending command: Powering off device", "info")>>
         IN  IF SentCleanly(run)
             THEN Ran("True", pre, run,
                      <<Note("Power off command sent successfully", "info")>>)
             ELSE Ran("False", pre, run, <<>>)

\* install_apk -------------------------------------------------------------

\* The classification of the process result (the if / else after the run).
InstallVerdict_DefaultSuccess(run) ==
    IF run.returncode = 0 /\ Contains("success", Lower(run.stdout))
    THEN OpResult("True", <<Note("Successfully installed", "info")>>, 0)
    ELSE IF run.returncode = 0 /\ Contains("failure", Lower(run.stdout))
    THEN OpResult("False", <<Note("Installation reported failure", "error")>>, 0)
    ELSE IF run.returncode = 0
    THEN OpResult("True", <<>>, 0)
    ELSE OpResult("False", <<>>, 0)

InstallVerdict(run) ==
    IF run.returncode = 0 /\ Contains("success", Lower(run.stdout))
    THEN OpResult("True", <<Note("Successfully installed", "info")>>, 0)
    ELSE IF run.returncode = 0 /\ Contains("failure", Lower(run.stdout))
    THEN OpResult("False", <<Note("Installation reported failure", "error")>>, 0)
    ELSE OpResult("False", <<>>, 0)

\* exists: os.path.exists(apk_path).
InstallApk(avail, serial, apk_path, exists, o) ==
    IF ~avail THEN OpResult("False", <<>>, 0)
    ELSE IF serial = "" \/ apk_path = ""
    THEN OpResult("False",
            <<Note("Error: Device and APK path must be specified for installation.",
                   "error")>>, 0)
    ELSE IF ~exists
    THEN OpResult("False", <<Note("Error: APK file not found", "error")>>, 0)
    ELSE LET run == RunAdbCommand(avail, <<"adb", "-s", serial, "install", "-r", apk_path>>, o)
             v == InstallVerdict(run)
         IN  Ran(v.ret, <<Note("Sending command: Installing", "info")>>, run, v.notes)

\* uninstall_package -------------------------------------------------------

UninstallVerdict(run) ==
    IF run.returncode = 0 /\ Contains("success", Lower(run.stdout))
    THEN OpResult("True", <<Note("Successfully uninstalled", "info")>>, 0)
    ELSE IF run.returncode = 0 /\ Contains("failure", Lower(run.stdout))
    THEN OpResult("False", <<Note("Uninstall command reported failure", "error")>>, 0)
    ELSE OpResult("False", <<>>, 0)

UninstallPackage(avail, serial, package_name, o) ==
    IF ~avail THEN OpResult("False", <<>>, 0)
    ELSE IF serial = "" \/ package_name = ""
    THEN OpResult("False",
            <<Note("Error: Device and package must be specified for uninstall.",
                   "error")>>, 0)
    ELSE LET run == RunAdbCommand(avail,
                        <<"adb", "-s", serial, "uninstall", "--user", "0", package_name>>, o)
             v == UninstallVerdict(run)
         IN  Ran(v.ret, <<Note("Sending command: Uninstalling", "info")>>, run, v.notes)

\* disable_package ---------------------------------------------------------

DisableVerdict(run, package_name) ==
    IF run.returncode = 0
    THEN IF Contains("package " \o package_name \o " new state: disabled",
                     Lower(run.stdout))
         THEN OpResult("True", <<Note("Successfully disabled", "info")>>, 0)
         ELSE IF Strip(run.stdout) # ""
         THEN OpResult("True",
                <<Note("Disable command sent, but output was unexpected", "warning")>>, 0)
         ELSE OpResult("False",
                <<Note("Disable command sent but received no output.", "error")>>, 0)
    ELSE OpResult("False", <<>>, 0)

DisablePackage(avail, serial, package_name, o) ==
    IF ~avail THEN OpResult("False", <<>>, 0)
    ELSE IF serial = "" \/ package_name = ""
    THEN OpResult("False",
            <<Note("Error: Device and package must be specified for disabling.",
                   "error")>>, 0)
    ELSE LET run == RunAdbCommand(avail,
                        <<"adb", "-s", serial, "shell", "pm", "disable-user",
                          "--user", "0", package_name>>, o)
             v == DisableVerdict(run, package_name)
         IN  Ran(v.ret, <<Note("Sending command: Disabling", "info")>>, run, v.notes)

\* connect_device ----------------------------------------------------------

\* The classification of stdout after a zero exit code.
ConnectVerdict(so, address) ==
    LET stdout_lower == Lower(so) IN
    IF Contains("connected to", stdout_lower) \/ Contains("already connected", stdout_lower)
    THEN OpResult("True", <<>>, 0)
    ELSE IF Contains(" connection refused", stdout_lower)
    THEN OpResult("False",
            <<Note("Connection failed for " \o address \o
                   ": Connection refused. Is ADB over TCP enabled on the device?",
                   "error")>>, 0)
    ELSE IF Contains(" unable to connect", stdout_lower)
            \/ Contains("failed to connect", stdout_lower)
    THEN OpResult("False",
            <<Note("Connection failed for " \o address \o ": " \o Strip(so), "error")>>, 0)
    ELSE OpResult("True",
            <<Note("Connect command successful for " \o address \o
                   ", but output was unexpected: " \o Strip(so), "warning")>>, 0)

ConnectDevice(avail, address, o) ==
    IF ~avail THEN OpResult("False", <<>>, 0)
    ELSE IF address = ""
    THEN OpResult("False", <<Note("Error: IP address is empty for connection.", "error")>>, 0)
    ELSE LET run == RunAdbCommand(avail, <<"adb", "connect", address>>, o)
             pre == <<Note("Attempting to connect to " \o address, "info")>>
         IN  IF run.returncode = 0
             THEN LET v == ConnectVerdict(run.stdout, address)
                  IN  Ran(v.ret, pre, run, v.notes)
             ELSE Ran("False", pre, run, <<>>)

\* list_devices ------------------------------------------------------------

ListResult(items, ns, n) == [ret |-> "list", list |-> items, notes |-> ns, ran |-> n]

\* A variant that keeps every line.
DeviceLines_KeepHeader(so) == Split(Strip(so), "\n")

\* The lines of the listing, the header dropped when it is the first line.
DeviceLines(so) ==
    LET lines == Split(Strip(so), "\n") IN
    IF lines # <<>> /\ Contains("List of devices attached", lines[1])
    THEN Tail(lines) ELSE lines

\* A variant that maps every state outside the three usual ones to 'unknown'.
DeviceRecord_Normalised(parts) ==
    [serial |-> parts[1],
     state |-> IF parts[2] \in {"device", "offline", "unauthorized"}
               THEN parts[2] ELSE "unknown",
     description |-> IF Len(parts) > 2 THEN parts[3] ELSE ""]

\* The record appended for a line with at least two fields.
DeviceRecord(parts) ==
    [serial |-> parts[1], state |-> parts[2],
     description |-> IF Len(parts) > 2 THEN parts[3] ELSE ""]

\* A variant in which a line that cannot be parsed ends the loop.
UnparsedLine_Fatal(line, rest) ==
    [devices |-> <<>>,
     notes |-> <<Note("Warning: Could not fully parse device line: '"
                      \o line \o "'", "warning")>>]

\* A line with fewer than two fields: one warning, and the loop goes on.
UnparsedLine(line, rest) ==
    [devices |-> rest.devices,
     notes |-> <<Note("Warning: Could not fully parse device line: '"
                      \o line \o "'", "warning")>> \o rest.notes]

\* The loop over the lines: the records and the warnings, in line order.
RECURSIVE ParseDeviceLines(_)
ParseDeviceLines(lines) ==
    IF lines = <<>> THEN [devices |-> <<>>, notes |-> <<>>]
    ELSE LET line == Strip(Head(lines))
             rest == ParseDeviceLines(Tail(lines))
             parts == SplitFields(line, 2)
         IN  IF line = "" THEN rest
             ELSE IF Len(parts) >= 2
             THEN [devices |-> <<DeviceRecord(parts)>> \o rest.devices,
                   notes |-> rest.notes]
             ELSE UnparsedLine(line, rest)

ListDevices(avail, o) ==
    IF ~avail THEN ListResult(<<>>, <<>>, 0)
    ELSE LET run == RunAdbCommand(avail, <<"adb", "devices", "-l">>, o)
             pre == <<Note("Searching for devices...", "info")>>
         IN  IF run.returncode = 0 /\ Truthy(run.stdout)
             THEN LET p == ParseDeviceLines(DeviceLines(run.stdout))
                      post == IF p.devices = <<>> /\ Strip(run.stdout) = ""
                              THEN <<Note("No devices found.", "info")>> ELSE <<>>
                  IN  ListResult(p.devices, pre \o run.notes \o p.notes \o post, run.ran)
             ELSE ListResult(<<>>, pre \o run.notes, run.ran)

\* list_packages -----------------------------------------------------------

RECURSIVE ParsePackageLines(_)
ParsePackageLines(lines) ==
    IF lines = <<>> THEN <<>>
    ELSE LET line == Strip(Head(lines))
             package_name == Strip(SubSeq(line, Len("package:") + 1, Len(line)))
         IN  (IF StartsWith(line, "package:") /\ package_name # ""
              THEN <<package_name>> ELSE <<>>) \o ParsePackageLines(Tail(lines))

ListPackages(avail, serial, user_only, o) ==
    IF ~avail THEN ListResult(<<>>, <<>>, 0)
    ELSE IF serial = ""
    THEN ListResult(<<>>, <<Note("Error: No device selected to list packages.", "warning")>>, 0)
    ELSE LET command == <<"adb", "-s", serial, "shell", "pm", "list", "packages",
                          "--user", "0">> \o (IF user_only THEN <<"-3">> ELSE <<>>)
             run == RunAdbCommand(avail, command, o)
             pre == <<Note("Listing packages for device", "info")>>
         IN  IF run.returncode = 0 /\ Truthy(run.stdout)
             THEN LET packages == ParsePackageLines(Split(Strip(run.stdout), "\n"))
                  IN  ListResult(packages,
                                 pre \o run.notes \o <<Note("Found packages.", "info")>>,
                                 run.ran)
             ELSE IF run.returncode = 0 /\ Strip(run.stdout) = ""
             THEN ListResult(<<>>,
                             pre \o run.notes \o
                             <<Note("No packages found with the current filter.", "info")>>,
                             run.ran)
             ELSE ListResult(<<>>, pre \o run.notes, run.ran)

\* get_package_details -----------------------------------------------------

NewDetails(package_name) ==
    [package_name |-> package_name, version_name |-> "Unknown",
     version_code |-> "Unknown", installer |-> "Unknown",
     first_install_time |-> "Unknown", last_update_time |-> "Unknown",
     uid |-> "Unknown", permissions |-> <<>>]

AfterEq(line) == SplitOnce(line, "=")[2]

\* A variant in which a blank line does not end the list of permissions.
EndsPermissions_MarkersOnly(line) ==
    \/ StartsWith(line, "install permissions:")
    \/ StartsWith(line, "runtime permissions:")

\* The lines that end the list of permissions.
EndsPermissions(line) ==
    \/ StartsWith(line, "install permissions:")
    \/ StartsWith(line, "runtime permissions:")
    \/ line = ""

\* One turn of the loop over the dump's lines; st holds details and reading_perms.
DetailsLine(st, raw) ==
    LET line == Strip(raw)
        dt == st.details
    IN  IF StartsWith(line, "versionName=")
        THEN [st EXCEPT !.details.version_name = AfterEq(line)]
        ELSE IF StartsWith(line, "versionCode=")
        THEN [st EXCEPT !.details.version_code = SplitOnce(AfterEq(line), " ")[1]]
        ELSE IF StartsWith(line, "installerPackageName=")
        THEN [st EXCEPT !.details.installer = AfterEq(line)]
        ELSE IF StartsWith(line, "firstInstallTime=")
        THEN [st EXCEPT !.details.first_install_time = AfterEq(line)]
        ELSE IF StartsWith(line, "lastUpdateTime=")
        THEN [st EXCEPT !.details.last_update_time = AfterEq(line)]
        ELSE IF StartsWith(line, "userId=")
        THEN [st EXCEPT !.details.uid = AfterEq(line)]
        ELSE IF StartsWith(line, "requested permissions:")
        THEN [st EXCEPT !.reading_perms = TRUE]
        ELSE IF st.reading_perms
        THEN IF EndsPermissions(line)
             THEN [st EXCEPT !.reading_perms = FALSE]
             ELSE [st EXCEPT !.details.permissions = Append(dt.permissions, line)]
        ELSE st

RECURSIVE ParseDetails(_, _)
ParseDetails(st, lines) ==
    IF lines = <<>> THEN st
    ELSE ParseDetails(DetailsLine(st, Head(lines)), Tail(lines))

DetailsResult(r, dt, ns, n) == [ret |-> r, details |-> dt, notes |-> ns, ran |-> n]

GetPackageDetails(avail, serial, package_name, o) ==
    IF ~avail \/ serial = "" \/ package_name = ""
    THEN DetailsResult("None", NoOut, <<>>, 0)
    ELSE LET run == RunAdbCommand(avail,
                        <<"adb", "-s", serial, "shell", "dumpsys", "package", package_name>>, o)
             pre == <<Note("Fetching details for " \o package_name \o "...", "info")>>
             st0 == [details |-> NewDetails(package_name), reading_perms |-> FALSE]
             st == IF run.returncode = 0 /\ Truthy(run.stdout)
                   THEN ParseDetails(st0, SplitLines(run.stdout)) ELSE st0
         IN  DetailsResult("dict", st.details, pre \o run.notes, run.ran)

\* get_device_info ---------------------------------------------------------

\* The sentinel of a field that could not be fetched.
NA == "N/A"

PropNamesToTry ==
    <<"ro.product.marketname", "ro.product.vendor.marketname",
      "ro.product.odm.marketname", "ro.product.system_dlkm.marketname",
      "ro.product.bootimage.marketname", "ro.product.display", "ro.product.name",
      "ro.product.device", "ro.product.model", "ro.vendor.product.model",
      "ro.system.product.model", "ro.system_ext.product.model", "ro.odm.product.model">>

\* The candidates the loop skips: they were fetched by the dedicated probes.
AlreadyFetched == {"ro.product.model", "ro.build.version.release"}

\* The property parser: stdout.strip().strip("'\"\r").
PropValue(so) == StripChars(Strip(so), QuoteChars)

\* A probe's value: non-empty only when the exit code is 0 and stdout is non-empty.
ProbeValue(run) ==
    IF run.returncode = 0 /\ Truthy(run.stdout) THEN PropValue(run.stdout) ELSE ""

\* The battery parser: the first line that starts with 'level:'.
RECURSIVE BatteryLevel(_)
BatteryLevel(lines) ==
    IF lines = <<>> THEN NA
    ELSE LET line == Strip(Head(lines)) IN
         IF StartsWith(line, "level:")
         THEN Strip(Split(line, ":")[2]) \o "%"
         ELSE BatteryLevel(Tail(lines))

\* The locals of get_device_info after its first status message.
\* fetched_model is fetched_values.get('ro.product.model'); the other entries
\* of fetched_values are never read.
InfoStart(serial) ==
    [info |-> [serial |-> serial, model |-> NA, version |-> NA,
               display_name |-> NA, battery_level |-> NA],
     fetched_model |-> None,
     essential |-> [model |-> FALSE, version |-> FALSE, battery |-> FALSE],
     best_display_name_found |-> None,
     i |-> 1]

AfterModel(st, run) ==
    LET model_value == ProbeValue(run) IN
    IF model_value # ""
    THEN [st EXCEPT !.info.model = model_value, !.fetched_model = model_value,
                    !.essential.model = TRUE]
    ELSE st

AfterVersion(st, run) ==
    LET version_value == ProbeValue(run) IN
    IF version_value # ""
    THEN [st EXCEPT !.info.version = version_value, !.essential.version = TRUE]
    ELSE st

\* A variant that scans the dump from its last line to its first.
AfterBattery_LastLevel(st, run) ==
    LET lines == SplitLines(run.stdout)
        level == IF run.returncode = 0 /\ Truthy(run.stdout)
                 THEN BatteryLevel([i \in 1..Len(lines) |-> lines[Len(lines) + 1 - i]])
                 ELSE NA
    IN  IF level # NA
        THEN [st EXCEPT !.info.battery_level = level, !.essential.battery = TRUE]
        ELSE st

AfterBattery(st, run) ==
    LET level == IF run.returncode = 0 /\ Truthy(run.stdout)
                 THEN BatteryLevel(SplitLines(run.stdout)) ELSE NA
    IN  IF level # NA
        THEN [st EXCEPT !.info.battery_level = level, !.essential.battery = TRUE]
        ELSE st

\* Whether a candidate's non-empty value becomes the display name.
Chosen_LastWins(st, prop_name, value) ==
    IF st.fetched_model # None /\ value = st.fetched_model
    THEN Contains("marketname", Lower(prop_name))
    ELSE TRUE

Chosen(st, prop_name, value) ==
    /\ st.best_display_name_found = None
    /\ IF st.fetched_model # None /\ value = st.fetched_model
       THEN Contains("marketname", Lower(prop_name))
       ELSE TRUE

AfterCandidate(st, prop_name, run) ==
    LET value == ProbeValue(run) IN
    [st EXCEPT !.best_display_name_found =
                    IF value # "" /\ Chosen(st, prop_name, value) THEN value ELSE @,
               !.i = @ + 1]

\* "Finalize display_name".
DisplayName_NoFallback(st) ==
    LET best == st.best_display_name_found IN
    IF best # None /\ best # "" /\ best \notin {"N/A", "Error", ""} THEN best
    ELSE st.info.display_name

DisplayName(st) ==
    LET best == st.best_display_name_found IN
    IF best # None /\ best # "" /\ best \notin {"N/A", "Error", ""} THEN best
    ELSE IF st.info.model \notin {"N/A", "Error"} THEN st.info.model
    ELSE st.info.serial

\* "Check if essential info failed".
InfoFailed_Either(st) == ~st.essential.model \/ ~st.essential.version

InfoFailed(st) == ~st.essential.model /\ ~st.essential.version

(***************************************************************************)
(* The batch uninstall worker of the GUI (_perform_uninstall_threaded).    *)
(***************************************************************************)

\* The target the loop processes at its i-th turn.
TargetAt_Reversed(packages, i) == packages[Len(packages) + 1 - i]

TargetAt(packages, i) == packages[i]

\* The else branch: disable_package is attempted only after a failed uninstall.
NeedsDisable(uninstall_success) == ~uninstall_success

\* The outcome recorded in results for one target.
BatchOutcome_Swapped(uninstall_success, disable_success) ==
    IF uninstall_success THEN "success"
    ELSE IF disable_success THEN "failed" ELSE "disabled"

BatchOutcome(uninstall_success, disable_success) ==
    IF uninstall_success THEN "success"
    ELSE IF disable_success THEN "disabled" ELSE "failed"

\* The turn of the loop that follows the one that recorded outcome for target i of n.
NextTurn_StopOnFailure(i, outcome, n) == IF outcome = "failed" THEN n + 1 ELSE i + 1

NextTurn(i, outcome, n) == i + 1

\* results[package_name] = outcome.
Record(results, package_name, outcome) == (package_name :> outcome) @@ results

(***************************************************************************)
(* Inputs.                                                                 *)
(***************************************************************************)

\* Device serials the GUI passes: none selected, or a device.
Serials == {"", "emulator-5554"}

\* What a process may leave on its error stream.
ErrTexts == {"", "\n", "error: device offline\n"}

\* Exit codes: clean, and failed.
ExitCodes == {0, 1}

\* Reboot modes the caller may pass: the valid ones and some that are not.
Modes == ValidModes \cup {"invalid-mode", "Recovery", "fastboot"}

\* install_apk's arguments and adb install's output.
ApkPaths == {"", "/tmp/app.apk"}
InstallOuts ==
    {"", "Performing Streamed Install\nSuccess\n",
     "Performing Streamed Install\n",
     "adb: failed to install app.apk: Failure [INSTALL_FAILED_OLDER_SDK]\n",
     "Failure [INSTALL_FAILED_VERIFICATION_FAILURE: success rate 0]\n"}

\* The packages the application list shows, sorted as _update_app_list_gui
\* sorts them, and the outputs of adb uninstall and pm disable-user.
current_app_packages == <<"com.a", "com.b", "com.c", "com.d">>
PackageArgs == {"", "com.a"}
UninstallOuts ==
    {"", "Success\n", "Failure [DELETE_FAILED_INTERNAL_ERROR]\n",
     "Exception occurred while executing 'uninstall'\n"}
DisableOuts ==
    {"", "\n", "Package com.a new state: disabled-user\n",
     "Package com.a new state: enabled\n"}

\* connect_device's argument and adb connect's output.
Addresses == {"", "192.168.1.5:5555"}
ConnectOuts ==
    {"", "connected to 192.168.1.5:5555\n",
     "already connected to 192.168.1.5:5555\n",
     "failed to connect to 192.168.1.5:5555\n",
     "failed to connect to '192.168.1.5:5555': Connection refused\n",
     "unable to connect to 192.168.1.5:5555: Connection timed out\n",
     "adb: unable to connect to 192.168.1.5:5555\n",
     "Connection refused\n",
     "cannot resolve host: connection refused\n",
     "* daemon started successfully\n"}

\* The output of adb devices -l.
DeviceOuts ==
    {"", "\n", "List of devices attached\n\n",
     "List of devices attached\nemulator-5554\tdevice\tproduct:sdk model:sdk device:generic\n",
     "List of devices attached\nemulator-5554  offline\n0123456789ABCDEF  unauthorized usb:1-1\n\n",
     "emulator-5554\tdevice\n",
     "List of devices attached\nemulator-5554\n \t\nabc  device  usb:1-1 product:x \r\n",
     "* daemon started successfully\nList of devices attached\nbadline\nabc\trecovery\n"}

\* The output of pm list packages.
PackageOuts ==
    {"", "\n", "package:com.a\r\npackage:com.b\r\n", "package:\npackage: com.c \nWARNING: x\n"}

\* The output of dumpsys package.
DetailOuts ==
    {"", "Unable to find package: com.a\n",
     "  Package [com.a] (1a2b):\n    userId=10123\n    versionCode=42 minSdk=21 targetSdk=33\n    versionName=1.2=beta\n    firstInstallTime=2024-01-01 10:00:00\n    lastUpdateTime=2024-02-01 10:00:00\n    installerPackageName=com.android.vending\n    requested permissions:\n      android.permission.INTERNET\n      android.permission.CAMERA\n    install permissions:\n      android.permission.INTERNET: granted=true\n",
     "    requested permissions:\n      android.permission.INTERNET\n\n      android.permission.NFC\n    requested permissions:\n      userId=7\n      android.permission.VIBRATE\n    runtime permissions:\n      android.permission.CAMERA: granted=false\n"}

\* The longest list of packages a batch is started with.
MaxTargets == 3

\* The checked packages, in the order of the checkbox dictionary, which is the
\* order of the sorted list: checked is the set of the checked rows.
RECURSIVE SelectedPackages(_, _)
SelectedPackages(checked, i) ==
    IF i > Len(current_app_packages) THEN <<>>
    ELSE (IF i \in checked THEN <<current_app_packages[i]>> ELSE <<>>)
             \o SelectedPackages(checked, i + 1)

\* The lists a batch is started with: some rows checked, no package twice.
TargetLists ==
    {SelectedPackages(checked, 1) :
        checked \in {c \in SUBSET DOMAIN current_app_packages :
                        c # {} /\ Cardinality(c) <= MaxTargets}}

\* The outputs of the getprop and dumpsys battery probes.
ModelOuts == {"", "\n", "SM-G960F\n", "'SM-G960F'\r\n", "''\n", "Error\n"}
VersionOuts == {"", "13\n", "\"\"\r\n"}
BatteryOuts ==
    {"", "Current Battery Service state:\n  AC powered: false\n  level: 87\n  scale: 100\n",
     "  level: 9\r\n  level: 5:0\r\n", "  status: 2\n  Level: 3\n"}
CandidateOuts == {"", "SM-G960F\n", "Galaxy S9\n", "starlte\n", "N/A\n"}

\* A probe that exits: cleanly, or with the device gone.
ExitOutcomes(outs) ==
    {Exit(0, so, "") : so \in outs}
        \cup {Exit(1, so, "error: device offline\n") : so \in outs}

\* The model probe, the first command sent to the device, may also time out.
ProbeOutcomes(outs) == ExitOutcomes(outs) \cup {Raises("timeout")}

\* A candidate probe: a clean exit, or the device gone.
CandidateOutcomes ==
    {Exit(0, so, "") : so \in CandidateOuts} \cup {Exit(1, "", "error: device offline\n")}

Outcomes(outs) ==
    {Exit(rc, so, se) : rc \in ExitCodes, so \in outs, se \in ErrTexts} \cup RunFailures

(***************************************************************************)
(* The window, AdbGripperApp (main_app.py).  gui holds the fields the      *)
(* handlers read and write, the state of each control (TRUE is "normal",   *)
(* FALSE is "disabled"), the worker threads that are running, the          *)
(* callbacks posted with after(0, ...) in the order Tk will run them, and  *)
(* the number of delayed refreshes posted with after(5000, ...) and        *)
(* after(2000, ...).  The status bar is left out: update_status writes     *)
(* only its label.  The file of a selected APK stays on disk.              *)
(***************************************************************************)

\* What adb devices can answer while the window is open: the device
\* identifiers in the order listed, every one in the state "device".
DeviceLists == {<<>>, <<"A">>, <<"B">>, <<"A", "B">>}

MaxGuiThreads == 3
MaxAfters == 3
MaxTimers == 1

\* How many times the user acts on the window in one run.
MaxClicks == 3

\* What get_device_info returns for a device.
DeviceInfo(serial) ==
    IF serial = "A"
    THEN [serial |-> "A", model |-> "Pixel 7", display_name |-> "Pixel 7"]
    ELSE [serial |-> serial, model |-> "N/A", display_name |-> "N/A"]

NoInfo == [serial |-> "N/A", model |-> "N/A", display_name |-> "N/A"]

Window(adb) ==
    [current_device_serial |-> "None",
     selected_apk_path |-> "None",
     available_devices_info |-> {},
     device_combobox |-> IF adb THEN "Loading..." ELSE "ADB not found",
     device_values |-> <<"Loading...">>,
     device_combobox_state |-> FALSE,
     refresh_button |-> adb,
     reboot_buttons |-> adb,
     select_apk_button |-> adb,
     install_apk_button |-> FALSE,
     refresh_app_list_button |-> adb,
     uninstall_selected_button |-> FALSE,
     app_checkboxes |-> "none",
     confirmation_dialog |-> FALSE,
     info_labels |-> NoInfo,
     selected_device_label |-> "Selected Device: None",
     threads |-> IF adb THEN SetToBag({[target |-> "_perform_list_devices_threaded",
                                           serial |-> "None"]})
                 ELSE EmptyBag,
     afters |-> <<>>,
     timers |-> 0,
     clicks |-> 0]

start(g, target, serial) ==
    [g EXCEPT !.threads = @ (+) SetToBag({[target |-> target, serial |-> serial]})]

finish(g, t) == [g EXCEPT !.threads = @ (-) SetToBag({t})]

after(g, fn, arg) == [g EXCEPT !.afters = Append(@, [fn |-> fn, arg |-> arg])]

Running(g, target) == {t \in BagToSet(g.threads) : t.target = target}

\* enable_functionality_widgets: the four power buttons, the filter and the
\* list refresh follow enable; Install follows enable and the chosen file.
enable_functionality_widgets(g, enable) ==
    [g EXCEPT !.reboot_buttons = enable,
              !.select_apk_button = enable,
              !.install_apk_button = enable /\ g.selected_apk_path # "None",
              !.refresh_app_list_button = enable,
              !.uninstall_selected_button = FALSE]

update_device_info(g, clear_only) ==
    IF ~clear_only /\ g.current_device_serial # "None"
    THEN start([g EXCEPT !.info_labels = [NoInfo EXCEPT !.serial = g.current_device_serial]],
               "_fetch_and_update_device_info_threaded", g.current_device_serial)
    ELSE [g EXCEPT !.info_labels = NoInfo]

list_devices_in_gui(g) ==
    start(update_device_info(
              [g EXCEPT !.refresh_button = FALSE,
                        !.device_combobox = "Searching...",
                        !.device_combobox_state = FALSE,
                        !.selected_device_label = "Selected Device: Searching..."],
              TRUE),
          "_perform_list_devices_threaded", "None")

on_app_checkbox_changed(g) ==
    [g EXCEPT !.uninstall_selected_button = (g.app_checkboxes = "checked")]

list_apps_in_gui(g) ==
    IF g.current_device_serial = "None"
    THEN g
    ELSE start([g EXCEPT !.refresh_app_list_button = FALSE,
                         !.uninstall_selected_button = FALSE,
                         !.app_checkboxes = "none"],
               "_perform_list_apps_threaded", g.current_device_serial)

\* The first word of the combobox text, as on_device_selected cuts it out.
SelectedSerial(text) ==
    CASE text = "No devices found" -> "No"
      [] text = "ADB not found" -> "ADB"
      [] OTHER -> text

on_device_selected(g) ==
    LET serial == SelectedSerial(g.device_combobox) IN
    IF serial \notin {"No", "ADB", "Selected", "Searching..."}
    THEN IF serial \in g.available_devices_info
         THEN list_apps_in_gui(
                  enable_functionality_widgets(
                      update_device_info(
                          [g EXCEPT !.current_device_serial = serial,
                                    !.selected_device_label =
                                        "Selected Device: " \o serial \o " (Fetching info...)"],
                          FALSE),
                      TRUE))
         ELSE list_devices_in_gui(g)
    ELSE enable_functionality_widgets(
             update_device_info(
                 [g EXCEPT !.current_device_serial = "None",
                           !.selected_device_label = "Selected Device: None"],
                 TRUE),
             FALSE)

update_device_list_gui(g, values) ==
    IF values # <<>>
    THEN after([g EXCEPT !.device_values = values,
                         !.device_combobox_state = TRUE,
                         !.device_combobox =
                             IF \A i \in DOMAIN values : values[i] # g.device_combobox
                             THEN values[1] ELSE @,
                         !.refresh_button = TRUE],
               "on_device_selected", <<>>)
    ELSE [enable_functionality_widgets(
              update_device_info(
                  [g EXCEPT !.device_values = <<"No devices found">>,
                            !.device_combobox_state = FALSE,
                            !.device_combobox = "No devices found",
                            !.selected_device_label = "Selected Device: None",
                            !.current_device_serial = "None"],
                  TRUE),
              FALSE)
          EXCEPT !.available_devices_info = {}, !.refresh_button = TRUE]

\* The text _do_update_device_info_gui writes on the 'Selected Device' label.
SelectedDeviceText(info) ==
    CASE info.display_name \notin {"N/A", "Error"} ->
             "Selected Device: " \o info.display_name \o " (" \o info.model \o ") ("
                 \o info.serial \o ")"
      [] info.model \notin {"N/A", "Error"} ->
             "Selected Device: " \o info.model \o " (" \o info.serial \o ")"
      [] info.serial \notin {"N/A", "Error"} -> "Selected Device: " \o info.serial
      [] OTHER -> "Selected Device: None"

do_update_device_info_gui(g, info) ==
    [g EXCEPT !.info_labels = info, !.selected_device_label = SelectedDeviceText(info)]

enable_install_buttons_gui(g) ==
    [g EXCEPT !.select_apk_button = TRUE,
              !.install_apk_button =
                  g.current_device_serial # "None" /\ g.selected_apk_path # "None"]

update_app_list_gui(g, packages) ==
    on_app_checkbox_changed(
        [g EXCEPT !.app_checkboxes = IF packages = <<>> THEN "none" ELSE "unchecked",
                  !.refresh_app_list_button = TRUE])

handle_uninstall_result_gui(g) ==
    [g EXCEPT !.app_checkboxes = IF @ = "checked" THEN "unchecked" ELSE @]

\* A step of the window: gui becomes g, the manager is left alone.
Becomes(g) ==
    /\ BagCardinality(g.threads) <= MaxGuiThreads
    /\ Len(g.afters) <= MaxAfters
    /\ g.timers <= MaxTimers
    /\ gui' = g
    /\ UNCHANGED <<adb_available, spawned, pc, call, ret, out, notes, ran,
                   logcat_process, logcat_threads, status_callback, console>>

\* A step the user takes, on the main window unless the confirmation dialog
\* holds the grab (dialog), and then on the dialog.
Input(dialog, g) ==
    /\ gui.confirmation_dialog = dialog
    /\ gui.clicks < MaxClicks
    /\ Becomes([g EXCEPT !.clicks = @ + 1])

\* Tk runs the callback that was posted first.
RunAfter ==
    /\ gui.afters # <<>>
    /\ LET g == [gui EXCEPT !.afters = Tail(@)]
           cb == Head(gui.afters)
       IN  Becomes(
        CASE cb.fn = "enable_functionality_widgets" ->
                 enable_functionality_widgets(g, cb.arg = <<"True">>)
          [] cb.fn = "refresh_app_list_button.configure" ->
                 [g EXCEPT !.refresh_app_list_button = FALSE]
          [] cb.fn = "uninstall_selected_button.configure" ->
                 [g EXCEPT !.uninstall_selected_button = FALSE]
          [] cb.fn = "_update_device_list_gui" -> update_device_list_gui(g, cb.arg)
          [] cb.fn = "on_device_selected" -> on_device_selected(g)
          [] cb.fn = "_do_update_device_info_gui" ->
                 do_update_device_info_gui(g, DeviceInfo(cb.arg[1]))
          [] cb.fn = "_enable_install_buttons_gui" -> enable_install_buttons_gui(g)
          [] cb.fn = "_update_app_list_gui" -> update_app_list_gui(g, cb.arg)
          [] cb.fn = "_handle_uninstall_result_gui" -> handle_uninstall_result_gui(g)
          [] cb.fn = "list_apps_in_gui" -> list_apps_in_gui(g)
          [] OTHER -> g)

\* A delayed refresh comes due.
TimerFires ==
    /\ gui.timers > 0
    /\ Becomes(list_devices_in_gui([gui EXCEPT !.timers = @ - 1]))

ClickRefresh ==
    /\ gui.refresh_button
    /\ Input(FALSE, list_devices_in_gui(gui))

\* _perform_list_devices_threaded: it writes available_devices_info itself.
ListDevicesThread ==
    \E t \in Running(gui, "_perform_list_devices_threaded") : \E devices \in DeviceLists :
        Becomes(after([finish(gui, t) EXCEPT !.available_devices_info =
                                               {devices[i] : i \in DOMAIN devices}],
                      "_update_device_list_gui", devices))

\* The user picks an entry of the dropdown.
SelectDevice ==
    /\ gui.device_combobox_state
    /\ \E i \in DOMAIN gui.device_values :
           Input(FALSE, on_device_selected([gui EXCEPT !.device_combobox = gui.device_values[i]]))

FetchInfoThread ==
    \E t \in Running(gui, "_fetch_and_update_device_info_threaded") :
        Becomes(after(finish(gui, t), "_do_update_device_info_gui", <<t.serial>>))

\* reboot_normal, reboot_recovery and reboot_bootloader.
ClickReboot ==
    /\ gui.reboot_buttons
    /\ gui.current_device_serial # "None"
    /\ Input(FALSE, start(enable_functionality_widgets(gui, FALSE),
                     "_perform_reboot_threaded", gui.current_device_serial))

RebootThread ==
    \E t \in Running(gui, "_perform_reboot_threaded") : \E success \in BOOLEAN :
        Becomes(IF success
                THEN [finish(gui, t) EXCEPT !.timers = @ + 1]
                ELSE after(finish(gui, t), "enable_functionality_widgets", <<"True">>))

ClickPowerOff ==
    /\ gui.reboot_buttons
    /\ gui.current_device_serial # "None"
    /\ Input(FALSE, start(enable_functionality_widgets(gui, FALSE),
                     "_perform_power_off_threaded", gui.current_device_serial))

PowerOffThread ==
    \E t \in Running(gui, "_perform_power_off_threaded") : \E success \in BOOLEAN :
        Becomes(IF success
                THEN [finish(gui, t) EXCEPT !.timers = @ + 1]
                ELSE after(finish(gui, t), "enable_functionality_widgets", <<"True">>))

\* select_apk_file: the user chooses a file or cancels the dialog.
SelectApk ==
    /\ gui.select_apk_button
    /\ \E apk_path \in {"app.apk", ""} :
           Input(FALSE, IF apk_path # ""
                   THEN [gui EXCEPT !.selected_apk_path = apk_path,
                                    !.install_apk_button =
                                        IF gui.current_device_serial # "None" THEN TRUE ELSE @]
                   ELSE [gui EXCEPT !.selected_apk_path = "None",
                                    !.install_apk_button = FALSE])

ClickInstall ==
    /\ gui.install_apk_button
    /\ gui.current_device_serial # "None"
    /\ Input(FALSE, IF gui.selected_apk_path = "None"
               THEN [gui EXCEPT !.install_apk_button = FALSE]
               ELSE start([gui EXCEPT !.install_apk_button = FALSE,
                                      !.select_apk_button = FALSE],
                          "_perform_install_apk_threaded", gui.current_device_serial))

InstallThread ==
    \E t \in Running(gui, "_perform_install_apk_threaded") :
        Becomes(after(finish(gui, t), "_enable_install_buttons_gui", <<>>))

ListAppsThread ==
    \E t \in Running(gui, "_perform_list_apps_threaded") : \E packages \in {<<>>, <<"com.a">>} :
        Becomes(after(finish(gui, t), "_update_app_list_gui", packages))

\* The user ticks or clears a box of the application list.
ToggleApp ==
    /\ gui.app_checkboxes # "none"
    /\ Input(FALSE, on_app_checkbox_changed(
                   [gui EXCEPT !.app_checkboxes =
                                   IF @ = "checked" THEN "unchecked" ELSE "checked"]))

\* uninstall_selected_apps opens the confirmation dialog.
ClickUninstall ==
    /\ gui.uninstall_selected_button
    /\ gui.app_checkboxes = "checked"
    /\ Input(FALSE, [gui EXCEPT !.confirmation_dialog = TRUE])

ConfirmUninstall ==
    Input(TRUE, IF gui.current_device_serial # "None"
               THEN start([gui EXCEPT !.confirmation_dialog = FALSE],
                          "_perform_uninstall_threaded", gui.current_device_serial)
               ELSE [gui EXCEPT !.confirmation_dialog = FALSE])

CancelUninstall ==
    Input(TRUE, [gui EXCEPT !.confirmation_dialog = FALSE])

\* _perform_uninstall_threaded posts the three lambdas that disable the
\* controls, and goes on to the packages.
UninstallThreadBegins ==
    \E t \in Running(gui, "_perform_uninstall_threaded") :
        Becomes(start(after(after(after(finish(gui, t),
                                        "enable_functionality_widgets", <<"False">>),
                                  "refresh_app_list_button.configure", <<>>),
                            "uninstall_selected_button.configure", <<>>),
                      "_perform_uninstall_threaded loop", t.serial))

\* The packages are processed: the result of each is posted, then the
\* lambdas that enable the controls and refresh the list.
UninstallThreadEnds ==
    \E t \in Running(gui, "_perform_uninstall_threaded loop") :
        Becomes(after(after(after(finish(gui, t),
                                  "_handle_uninstall_result_gui", <<>>),
                            "enable_functionality_widgets", <<"True">>),
                      "list_apps_in_gui", <<>>))

GuiNext ==
    \/ RunAfter
    \/ TimerFires
    \/ ClickRefresh
    \/ ListDevicesThread
    \/ SelectDevice
    \/ FetchInfoThread
    \/ ClickReboot
    \/ RebootThread
    \/ ClickPowerOff
    \/ PowerOffThread
    \/ SelectApk
    \/ ClickInstall
    \/ InstallThread
    \/ ListAppsThread
    \/ ToggleApp
    \/ ClickUninstall
    \/ ConfirmUninstall
    \/ CancelUninstall
    \/ UninstallThreadBegins
    \/ UninstallThreadEnds

(***************************************************************************)
(* The state after AdbManager.__init__: the availability probe has run.    *)
(***************************************************************************)

\* The manager after __init__, but for its callback.
Constructed ==
    /\ adb_available \in BOOLEAN
    /\ spawned = FALSE
    /\ pc = "ready"
    /\ call = NoCall
    /\ ret = "None"
    /\ out = NoOut
    /\ notes = <<>>
    /\ ran = 0
    /\ logcat_process = "None"
    /\ logcat_threads = <<>>
    /\ console = <<>>
    /\ gui = Window(adb_available)

\* The application hands the manager its update_status, which posts the
\* message to the GUI thread.
Init == Constructed /\ status_callback = "ok"

\* The callbacks a manager can be constructed with.


\* A variant without the try: what the callback raises leaves _update_status.
UpdateStatus_Propagates(cb, note) ==
    CASE cb = "none" ->
            [console |-> <<"Status (" \o note.level \o "): " \o note.msg>>, raised |-> FALSE]
      [] cb = "raises" -> [console |-> <<>>, raised |-> TRUE]
      [] OTHER -> [console |-> <<>>, raised |-> FALSE]

\* _update_status: the callback is called inside try / except Exception, which
\* prints what it raised; without a callback the message itself is printed.
UpdateStatus(cb, note) ==
    CASE cb = "none" ->
            [console |-> <<"Status (" \o note.level \o "): " \o note.msg>>, raised |-> FALSE]
      [] cb = "raises" ->
            [console |-> <<"Error calling status callback: sink failed">>, raised |-> FALSE]
      [] OTHER -> [console |-> <<>>, raised |-> FALSE]

\* The calls of _update_status an operation makes, one after the other, up to
\* the first that raises: the messages handed over, the lines printed, and
\* whether the operation was left by an exception.
RECURSIVE Deliver(_, _)
Deliver(cb, ns) ==
    IF ns = <<>> THEN [notes |-> <<>>, console |-> <<>>, raised |-> FALSE]
    ELSE LET u == UpdateStatus(cb, Head(ns))
             rest == Deliver(cb, Tail(ns))
         IN  IF u.raised
             THEN [notes |-> <<Head(ns)>>, console |-> u.console, raised |-> TRUE]
             ELSE [notes |-> <<Head(ns)>> \o rest.notes,
                   console |-> u.console \o rest.console, raised |-> rest.raised]

\* An operation that runs to its return in one step.
Returns(c, r, o, ns, n) ==
    LET d == Deliver(status_callback, ns) IN
    /\ pc = "ready"
    /\ pc' = "returned"
    /\ call' = c
    /\ ret' = IF d.raised THEN "Exception" ELSE r
    /\ out' = IF d.raised THEN NoOut ELSE o
    /\ notes' = d.notes
    /\ console' = d.console
    /\ ran' = n
    /\ spawned' = (spawned \/ n > 0)
    /\ UNCHANGED <<adb_available, gui, status_callback, logcat_process, logcat_threads>>

\* The caller has consumed the result; the manager is ready for the next call.
Done ==
    /\ pc = "returned"
    /\ pc' = "ready"
    /\ call' = NoCall
    /\ ret' = "None"
    /\ out' = NoOut
    /\ notes' = <<>>
    /\ console' = <<>>
    /\ ran' = 0
    /\ UNCHANGED <<adb_available, gui, status_callback, logcat_process, logcat_threads, spawned>>

(***************************************************************************)
(* _run_adb_command, called on its own.                                    *)
(***************************************************************************)

Commands == {<<"adb", "devices", "-l">>, <<"ADB", "version">>, <<"fastboot", "devices">>, <<>>}

RunOuts == {"", "ok\n"}

RunCommand ==
    \E command \in Commands, o \in Outcomes(RunOuts) :
        LET r == RunAdbCommand(adb_available, command, o) IN
        Returns([name |-> "_run_adb_command", command |-> command, o |-> o],
                "tuple", r, r.notes, r.ran)

(***************************************************************************)
(* The single-command operations as actions.                               *)
(***************************************************************************)

Finish(c, v) == Returns(c, v.ret, NoOut, v.notes, v.ran)

\* What adb reboot prints: as a rule nothing.
RebootOuts == {"", "Done\n"}

Reboot ==
    \E serial \in Serials, mode \in Modes, o \in Outcomes(RebootOuts) :
        Finish([name |-> "reboot_device", serial |-> serial, mode |-> mode, o |-> o],
               RebootDevice(adb_available, serial, mode, o))

PowerOff ==
    \E serial \in Serials, o \in Outcomes(RebootOuts) :
        Finish([name |-> "power_off_device", serial |-> serial, o |-> o],
               PowerOffDevice(adb_available, serial, o))

Install ==
    \E serial \in Serials, apk_path \in ApkPaths, exists \in BOOLEAN,
       o \in Outcomes(InstallOuts) :
        Finish([name |-> "install_apk", serial |-> serial, apk_path |-> apk_path,
                exists |-> exists, o |-> o],
               InstallApk(adb_available, serial, apk_path, exists, o))

Uninstall ==
    \E serial \in Serials, package_name \in PackageArgs, o \in Outcomes(UninstallOuts) :
        Finish([name |-> "uninstall_package", serial |-> serial,
                package_name |-> package_name, o |-> o],
               UninstallPackage(adb_available, serial, package_name, o))

\* disable_package is also given a package whose name has a capital letter,
\* with the line pm prints for it.
Disable ==
    \E serial \in Serials, package_name \in PackageArgs \cup {"com.B"},
       o \in Outcomes(DisableOuts \cup {"Package com.B new state: disabled\n"}) :
        Finish([name |-> "disable_package", serial |-> serial,
                package_name |-> package_name, o |-> o],
               DisablePackage(adb_available, serial, package_name, o))

Connect ==
    \E address \in Addresses, o \in Outcomes(ConnectOuts) :
        Finish([name |-> "connect_device", address |-> address, o |-> o],
               ConnectDevice(adb_available, address, o))

ListDevicesOp ==
    \E o \in Outcomes(DeviceOuts) :
        LET v == ListDevices(adb_available, o) IN
        Returns([name |-> "list_devices", o |-> o], v.ret, [list |-> v.list], v.notes, v.ran)

ListPackagesOp ==
    \E serial \in Serials, user_only \in BOOLEAN, o \in Outcomes(PackageOuts) :
        LET v == ListPackages(adb_available, serial, user_only, o) IN
        Returns([name |-> "list_packages", serial |-> serial, user_only |-> user_only,
                 o |-> o],
                v.ret, [list |-> v.list], v.notes, v.ran)

PackageDetailsOp ==
    \E serial \in Serials, package_name \in PackageArgs, o \in Outcomes(DetailOuts) :
        LET v == GetPackageDetails(adb_available, serial, package_name, o) IN
        Returns([name |-> "get_package_details", serial |-> serial,
                 package_name |-> package_name, o |-> o],
                v.ret, v.details, v.notes, v.ran)

(***************************************************************************)
(* get_device_info, one blocking probe at a time.                          *)
(***************************************************************************)

\* What the caller can say of a probe from the process alone: it succeeded
\* when the process exited with code 0 and printed a non-empty value.
ProbeSucceeded(o) == o.kind = "exit" /\ o.rc = 0 /\ PropValue(o.out) # ""

\* What the caller can say of a candidate from the process and the key alone:
\* the value it printed, and whether the selection rule accepts it.
Fetched(o) == IF o.kind = "exit" /\ o.rc = 0 THEN PropValue(o.out) ELSE ""

Eligible(prop_name, o, model) ==
    /\ Fetched(o) # ""
    /\ Fetched(o) # model \/ Contains("marketname", prop_name)

\* A probe ran: its run count and its notes are added to the operation's.
Probed(run) ==
    /\ notes' = notes \o run.notes
    /\ console' = console \o Deliver(status_callback, run.notes).console
    /\ ran' = ran + run.ran
    /\ spawned' = (spawned \/ run.ran > 0)
    /\ UNCHANGED <<adb_available, gui, status_callback, logcat_process, logcat_threads, ret>>

GetDeviceInfoCall ==
    \E serial \in Serials :
        LET c == [name |-> "get_device_info", serial |-> serial] IN
        IF ~adb_available THEN Returns(c, "None", NoOut, <<>>, 0)
        ELSE IF serial = ""
        THEN Returns(c, "None", NoOut,
                     <<Note("Error: No device selected to get info.", "error")>>, 0)
        ELSE /\ pc = "ready"
             /\ pc' = "info_model"
             /\ call' = c
             /\ out' = InfoStart(serial)
             /\ notes' = <<Note("Fetching info for device " \o serial, "info")>>
             /\ console' = Deliver(status_callback, notes').console
             /\ UNCHANGED <<adb_available, gui, status_callback, logcat_process, logcat_threads, spawned, ret, ran>>

InfoModel ==
    /\ pc = "info_model"
    /\ \E o \in ProbeOutcomes(ModelOuts) :
        LET run == RunAdbCommand(adb_available,
                       <<"adb", "-s", call.serial, "shell", "getprop", "ro.product.model">>, o)
        IN  /\ out' = AfterModel(out, run)
            /\ call' = call @@ [model_ok |-> ProbeSucceeded(o), model |-> Fetched(o),
                                 first_eligible |-> None]
            /\ Probed(run)
    /\ pc' = "info_version"

InfoVersion ==
    /\ pc = "info_version"
    /\ \E o \in ExitOutcomes(VersionOuts) :
        LET run == RunAdbCommand(adb_available,
                       <<"adb", "-s", call.serial, "shell", "getprop",
                         "ro.build.version.release">>, o)
        IN  /\ out' = AfterVersion(out, run)
            /\ call' = call @@ [version_ok |-> ProbeSucceeded(o)]
            /\ Probed(run)
    /\ pc' = "info_battery"

\* The first line of the dump that starts with 'level:', when there is one and
\* the dump command exited with status 0.
FirstLevelLine(o) ==
    LET levels == SelectSeq([i \in DOMAIN SplitLines(o.out) |-> Strip(SplitLines(o.out)[i])],
                            LAMBDA l : StartsWith(l, "level:"))
    IN  IF ~(o.kind = "exit" /\ o.rc = 0) THEN "<failed>"
        ELSE IF levels = <<>> THEN None ELSE Head(levels)

InfoBattery ==
    /\ pc = "info_battery"
    /\ \E o \in ExitOutcomes(BatteryOuts) :
        LET run == RunAdbCommand(adb_available,
                       <<"adb", "-s", call.serial, "shell", "dumpsys", "battery">>, o)
        IN  /\ out' = AfterBattery(out, run)
            /\ call' = call @@ [level_line |-> FirstLevelLine(o)]
            /\ Probed(run)
    /\ pc' = "info_props"

\* One turn of the loop over prop_names_to_try.
InfoCandidate ==
    /\ pc = "info_props"
    /\ out.i <= Len(PropNamesToTry)
    /\ LET prop_name == PropNamesToTry[out.i] IN
       IF prop_name \in AlreadyFetched
       THEN /\ out' = [out EXCEPT !.i = @ + 1]
            /\ UNCHANGED <<adb_available, gui, status_callback, logcat_process, logcat_threads, spawned, ret, notes, console,
                           ran, call>>
       ELSE \E o \in CandidateOutcomes :
            LET run == RunAdbCommand(adb_available,
                           <<"adb", "-s", call.serial, "shell", "getprop", prop_name>>, o)
            IN  /\ out' = AfterCandidate(out, prop_name, run)
                /\ call' = [call EXCEPT !.first_eligible =
                                IF @ = None /\ Eligible(prop_name, o, call.model)
                                THEN Fetched(o) ELSE @]
                /\ Probed(run)
    /\ UNCHANGED pc

\* The loop is over: the display name is finalised and the record or None returned.
InfoReturn ==
    /\ pc = "info_props"
    /\ out.i > Len(PropNamesToTry)
    /\ pc' = "returned"
    /\ out' = [out EXCEPT !.info.display_name = DisplayName(out)]
    /\ IF InfoFailed(out)
       THEN /\ ret' = "None"
            /\ notes' = Append(notes,
                   Note("Failed to fetch essential model/version info for device "
                        \o call.serial, "error"))
       ELSE /\ ret' = "dict"
            /\ notes' = Append(notes, Note("Info fetch complete for " \o call.serial, "info"))
    /\ console' = Deliver(status_callback, notes').console
    /\ UNCHANGED <<adb_available, gui, status_callback, logcat_process, logcat_threads, spawned, call, ran>>

(***************************************************************************)
(* start_logcat and the worker thread it starts.  The class has no         *)
(* stop_logcat method (the def is nested in start_logcat and never called  *)
(* there), so self.stop_logcat() raises AttributeError wherever it is      *)
(* reached, and _stop_logcat_event is never set.                           *)
(***************************************************************************)

\* The most worker threads started in one run of the program.
\* The most worker threads start_logcat is let to start.
MaxLogcatThreads == 2

\* The guard of start_logcat.
LogcatRefused_NoDeviceOnly(avail, serial) == serial = ""

LogcatRefused(avail, serial) == ~avail \/ serial = ""

\* The worker threads whose child process is running.
LiveChildren == {t \in DOMAIN logcat_threads : logcat_threads[t].alive}

\* A worker thread that start_logcat has just started; alive tells whether
\* the child process the worker opened is running, handle whether that
\* process is the one self.logcat_process refers to.
NewWorker(serial) ==
    [pc |-> "started", serial |-> serial, alive |-> FALSE, handle |-> FALSE, notes |-> <<>>]

StartLogcat ==
    \E serial \in Serials :
        LET c == [name |-> "start_logcat", serial |-> serial, live |-> LiveChildren] IN
        IF LogcatRefused(adb_available, serial)
        THEN Returns(c, "None", NoOut,
                     <<Note("Cannot start Logcat: ADB unavailable or no device.", "error")>>, 0)
        ELSE IF logcat_process # "None"
        THEN Returns(c, "AttributeError", NoOut, <<>>, 0)
        ELSE /\ pc = "ready"
             /\ Len(logcat_threads) < MaxLogcatThreads
             /\ pc' = "returned"
             /\ call' = c
             /\ ret' = "None"
             /\ out' = NoOut
             /\ notes' = <<Note("Logcat started for " \o serial, "info")>>
             /\ console' = Deliver(status_callback, notes').console
             /\ ran' = 0
             /\ logcat_threads' = Append(logcat_threads, NewWorker(serial))
             /\ UNCHANGED <<adb_available, gui, status_callback, spawned, logcat_process>>

\* The finally clause of the worker: self.stop_logcat() raises AttributeError
\* before anything is done, so it leaves the children and the handle.
Cleanup_StopsHandle(threads, process) ==
    [threads |-> [u \in DOMAIN threads |->
                     IF threads[u].handle
                     THEN [threads[u] EXCEPT !.alive = FALSE, !.handle = FALSE]
                     ELSE threads[u]],
     process |-> "None"]

Cleanup(threads, process) == [threads |-> threads, process |-> process]

\* The worker calls subprocess.Popen: the child runs and the worker reads its
\* stream, or Popen raises, the except clause reports it, and the finally
\* clause ends the thread with AttributeError.
LogcatPopen ==
    \E t \in DOMAIN logcat_threads :
        /\ logcat_threads[t].pc = "started"
        /\ spawned' = TRUE
        /\ \/ /\ logcat_process' = "Popen"
              /\ logcat_threads' =
                    [u \in DOMAIN logcat_threads |->
                        IF u = t
                        THEN [logcat_threads[u] EXCEPT !.pc = "reading", !.alive = TRUE,
                                                       !.handle = TRUE]
                        ELSE [logcat_threads[u] EXCEPT !.handle = FALSE]]
           \/ LET ended == [logcat_threads EXCEPT
                                ![t].pc = "dead",
                                ![t].notes = Append(@, Note("Logcat error", "error"))]
                  c == Cleanup(ended, logcat_process)
              IN  /\ logcat_process' = c.process
                  /\ logcat_threads' = c.threads
        /\ UNCHANGED <<adb_available, gui, status_callback, pc, call, ret, out, notes, console, ran>>

\* The read loop ends: the child exited and the stream is drained, or the
\* callback raised while the child runs and the except clause reports it; then
\* the finally clause ends the thread with AttributeError, logcat_process left
\* as it is and the child neither terminated nor killed.  The loop's own
\* condition never ends it: nothing sets _stop_logcat_event.
LogcatEnd ==
    \E t \in DOMAIN logcat_threads, raised \in BOOLEAN :
        /\ logcat_threads[t].pc = "reading"
        /\ LET ended == [logcat_threads EXCEPT
                             ![t].pc = "dead",
                             ![t].alive = raised,
                             ![t].notes = IF raised
                                          THEN Append(@, Note("Logcat error", "error"))
                                          ELSE @]
               c == Cleanup(ended, logcat_process)
           IN  /\ logcat_process' = c.process
               /\ logcat_threads' = c.threads
        /\ UNCHANGED <<adb_available, gui, status_callback, spawned, pc, call, ret, out, notes, console, ran>>

\* The Stop button: stop_logcat_gui calls the manager's stop_logcat, which is
\* not an attribute of AdbManager (the def at adb_manager.py:751 is local to
\* start_logcat), so the call raises AttributeError before anything is done.
StopLogcatGui ==
    Returns([name |-> "stop_logcat", live |-> LiveChildren], "AttributeError", NoOut, <<>>, 0)

(***************************************************************************)
(* The batch worker, one blocking manager call at a time.  out.log is the  *)
(* sequence of manager calls the worker has issued; an entry is done once  *)
(* its call has returned.                                                  *)
(***************************************************************************)

\* _confirm_uninstall starts the worker thread.
BatchStart ==
    /\ pc = "ready"
    /\ adb_available
    /\ \E serial \in Serials \ {""}, packages \in TargetLists :
        call' = [name |-> "_perform_uninstall_threaded", serial |-> serial,
                 packages |-> packages]
    /\ pc' = "batch_loop"
    /\ out' = [results |-> <<>>, i |-> 1, log |-> <<>>]
    /\ UNCHANGED <<adb_available, gui, status_callback, logcat_process, logcat_threads, spawned, ret, notes, console, ran>>

Issued(op) ==
    [i |-> out.i, package |-> TargetAt(call.packages, out.i), op |-> op,
     done |-> FALSE, ok |-> FALSE]

Returned(ok) == [out.log EXCEPT ![Len(out.log)].done = TRUE, ![Len(out.log)].ok = ok]

\* The cost of a manager call made by the worker.
BatchRan(v) ==
    /\ ran' = ran + v.ran
    /\ spawned' = (spawned \/ v.ran > 0)
    /\ UNCHANGED <<adb_available, gui, status_callback, logcat_process, logcat_threads, call, ret, notes, console>>

\* The loop takes its next target and calls uninstall_package.
BatchCallUninstall ==
    /\ pc = "batch_loop"
    /\ out.i <= Len(call.packages)
    /\ pc' = "batch_uninstall"
    /\ out' = [out EXCEPT !.log = Append(@, Issued("uninstall"))]
    /\ UNCHANGED <<adb_available, gui, status_callback, logcat_process, logcat_threads, spawned, call, ret, notes, console, ran>>

\* uninstall_package returns.
BatchUninstallReturns ==
    /\ pc = "batch_uninstall"
    /\ \E o \in Outcomes(UninstallOuts) :
        LET package_name == TargetAt(call.packages, out.i)
            v == UninstallPackage(adb_available, call.serial, package_name, o)
            uninstall_success == v.ret = "True"
            outcome == BatchOutcome(uninstall_success, FALSE)
        IN  /\ IF NeedsDisable(uninstall_success)
               THEN /\ pc' = "batch_fallback"
                    /\ out' = [out EXCEPT !.log = Returned(uninstall_success)]
               ELSE /\ pc' = "batch_loop"
                    /\ out' = [out EXCEPT
                                 !.log = Returned(uninstall_success),
                                 !.results = Record(@, package_name, outcome),
                                 !.i = NextTurn(@, outcome, Len(call.packages))]
            /\ BatchRan(v)

\* The worker calls disable_package.
BatchCallDisable ==
    /\ pc = "batch_fallback"
    /\ pc' = "batch_disable"
    /\ out' = [out EXCEPT !.log = Append(@, Issued("disable"))]
    /\ UNCHANGED <<adb_available, gui, status_callback, logcat_process, logcat_threads, spawned, call, ret, notes, console, ran>>

\* disable_package returns.
BatchDisableReturns ==
    /\ pc = "batch_disable"
    /\ \E o \in Outcomes(DisableOuts) :
        LET package_name == TargetAt(call.packages, out.i)
            v == DisablePackage(adb_available, call.serial, package_name, o)
            disable_success == v.ret = "True"
            uninstall_success == out.log[Len(out.log) - 1].ok
            outcome == BatchOutcome(uninstall_success, disable_success)
        IN  /\ pc' = "batch_loop"
            /\ out' = [out EXCEPT
                         !.log = Returned(disable_success),
                         !.results = Record(@, package_name, outcome),
                         !.i = NextTurn(@, outcome, Len(call.packages))]
            /\ BatchRan(v)

\* "All packages processed".
BatchReturn ==
    /\ pc = "batch_loop"
    /\ out.i > Len(call.packages)
    /\ pc' = "returned"
    /\ UNCHANGED <<adb_available, gui, status_callback, logcat_process, logcat_threads, spawned, call, ret, out, notes, console, ran>>

BatchStep ==
    \/ BatchCallUninstall
    \/ BatchUninstallReturns
    \/ BatchCallDisable
    \/ BatchDisableReturns
    \/ BatchReturn

Next ==
    \/ RunCommand
    \/ Reboot
    \/ PowerOff
    \/ Install
    \/ Uninstall
    \/ Disable
    \/ Connect
    \/ ListDevicesOp
    \/ ListPackagesOp
    \/ PackageDetailsOp
    \/ GetDeviceInfoCall
    \/ InfoModel
    \/ InfoVersion
    \/ InfoBattery
    \/ InfoCandidate
    \/ InfoReturn
    \/ BatchStart
    \/ BatchCallUninstall
    \/ BatchUninstallReturns
    \/ BatchCallDisable
    \/ BatchDisableReturns
    \/ BatchReturn
    \/ StartLogcat
    \/ Done

\* The operations of the manager and the batch worker.  The threads that
\* start_logcat starts take their steps in LogcatSpec.
Spec == Init /\ [][Next]_vars

\* The log streams: start_logcat, the Stop button, and the worker threads,
\* which run beside the callers of the manager.
LogcatNext ==
    \/ StartLogcat
    \/ LogcatPopen
    \/ LogcatEnd
    \/ StopLogcatGui
    \/ Done

LogcatSpec == Init /\ [][LogcatNext]_vars

\* The operations that return in one step, with every kind of callback.
SinkNext ==
    \/ RunCommand
    \/ Reboot
    \/ PowerOff
    \/ Install
    \/ Uninstall
    \/ Disable
    \/ Connect
    \/ ListDevicesOp
    \/ ListPackagesOp
    \/ PackageDetailsOp
    \/ Done

SinkInit == Constructed /\ status_callback \in {"ok", "raises", "none"}

SinkSpec == SinkInit /\ [][SinkNext]_vars

\* The window with the program found: the user, the worker threads and the
\* posted callbacks take their steps in any order.
GuiInit == Constructed /\ adb_available /\ status_callback = "ok"

GuiSpec == GuiInit /\ [][GuiNext]_vars

\* The batch worker on its own, from the confirmation that starts it to its
\* return.  The worker is a thread of its own and every manager call it makes
\* returns (each command has a timeout), so a worker that can take a step takes
\* it; the logcat workers, which run beside it, leave the batch's variables
\* alone.
BatchNext == BatchStart \/ BatchStep \/ Done

BatchSpec == Init /\ [][BatchNext]_vars /\ WF_vars(BatchStep)

(***************************************************************************)
(* Properties.                                                             *)
(***************************************************************************)

\* _run_adb_command has returned from a call that reached subprocess.run.
RunnerReturned == pc = "returned" /\ call.name = "_run_adb_command" /\ ran = 1

ErrorNotes(ns) == {i \in DOMAIN ns : ns[i].level = "error"}

\* C6: the process runner never raises: a non-zero exit comes back as the
\* process's own (stdout, stderr, exit code), and each low-level failure (tool
\* not found, timeout, any other exception) is reported once at error severity
\* and comes back as a three-field result with a non-zero exit code.
C6_RunnerNeverRaises ==
    RunnerReturned =>
        /\ ~out.raised
        /\ (call.o.kind = "exit" =>
                /\ out.stdout = call.o.out
                /\ out.stderr = call.o.err
                /\ out.returncode = call.o.rc)
        /\ (call.o.kind # "exit" =>
                /\ out.stdout = None
                /\ out.returncode # 0
                /\ Len(notes) = 1
                /\ ErrorNotes(notes) = {1})

C6_Witness ==
    /\ RunnerReturned
    /\ call.o.kind = "other"
    /\ out.returncode = 1
    /\ ErrorNotes(notes) = {1}

\* C7 as stated: a finished subprocess with a non-zero exit code or a non-empty
\* error stream makes exactly one sink call.
C7_OneCallIfNonEmptyStderr ==
    (RunnerReturned /\ call.o.kind = "exit" /\ (call.o.rc # 0 \/ call.o.err # ""))
        => Len(notes) = 1

\* C7 amended: a finished subprocess with a non-zero exit code or an error
\* stream that is non-blank (non-empty once whitespace is stripped) makes
\* exactly one sink call, also when both hold; a zero exit with a blank error
\* stream makes none.
C7_OneCallIfNonBlankStderr ==
    (RunnerReturned /\ call.o.kind = "exit") =>
        Len(notes) = (IF call.o.rc # 0 \/ Strip(call.o.err) # "" THEN 1 ELSE 0)

C7_Witness ==
    /\ RunnerReturned
    /\ call.o.kind = "exit"
    /\ call.o.rc # 0
    /\ Strip(call.o.err) # ""
    /\ Len(notes) = 1

HasNote(ns, msg, level) == \E i \in DOMAIN ns : ns[i] = Note(msg, level)

\* reboot_device has returned from a call with a mode outside the enumerated set.
RebootInvalidMode ==
    pc = "returned" /\ call.name = "reboot_device" /\ call.mode \notin ValidModes

InstallExitedZero ==
    /\ pc = "returned" /\ call.name = "install_apk" /\ ran = 1
    /\ call.o.kind = "exit" /\ call.o.rc = 0

HasSuccess(so) == Contains("success", Lower(so))
HasFailure(so) == Contains("failure", Lower(so))

\* C8 as stated: with exit code 0, output with the success marker gives
\* success, output with the failure marker gives a failure with its own error
\* message, and output with neither marker gives success.
C8_NeitherMarkerIsSuccess ==
    InstallExitedZero =>
        IF HasSuccess(call.o.out) THEN ret = "True"
        ELSE IF HasFailure(call.o.out)
        THEN ret = "False" /\ HasNote(notes, "Installation reported failure", "error")
        ELSE ret = "True"

\* C8 amended: with exit code 0, output with the success marker (in any letter
\* case) gives success; otherwise output with the failure marker gives a
\* failure with its own error message; output with neither marker gives
\* failure, with no message of its own.
C8_NeitherMarkerIsFailure ==
    InstallExitedZero =>
        IF HasSuccess(call.o.out)
        THEN ret = "True" /\ HasNote(notes, "Successfully installed", "info")
        ELSE IF HasFailure(call.o.out)
        THEN ret = "False" /\ HasNote(notes, "Installation reported failure", "error")
        ELSE ret = "False" /\ ErrorNotes(notes) = {}

C8_Witness ==
    /\ InstallExitedZero
    /\ ~HasSuccess(call.o.out)
    /\ ~HasFailure(call.o.out)
    /\ call.o.out # ""
    /\ ret = "False"

\* connect_device has returned from a call whose process exited with code 0.
ConnectExitedZero ==
    /\ pc = "returned" /\ call.name = "connect_device" /\ ran = 1
    /\ call.o.kind = "exit" /\ call.o.rc = 0

Warnings(ns) == {i \in DOMAIN ns : ns[i].level = "warning"}

\* C9: after a zero exit code connect_device gives success for output with
\* 'connected' / 'already connected', failure with its own message for output
\* with 'connection refused', failure for output with 'unable to connect' or
\* 'failed to connect', and success with a warning for anything else; output
\* with one of the three failure phrases at any position and no success phrase
\* never gives success.
C9_ConnectClassification ==
    ConnectExitedZero =>
        LET l == Lower(call.o.out) IN
        IF Contains("connected", l) \/ Contains("already connected", l)
        THEN ret = "True"
        ELSE IF Contains("connection refused", l)
        THEN /\ ret = "False"
             /\ \E i \in ErrorNotes(notes) : Contains("Connection refused.", notes[i].msg)
        ELSE IF Contains("unable to connect", l) \/ Contains("failed to connect", l)
        THEN ret = "False"
        ELSE ret = "True" /\ Warnings(notes) # {}

\* get_device_info has returned from a call with the tool available and a serial.
InfoReturned ==
    /\ pc = "returned" /\ call.name = "get_device_info"
    /\ adb_available /\ call.serial # ""

\* C10: for a non-empty serial with the tool available, get_device_info
\* returns null exactly when both the model probe and the version probe failed
\* (non-zero exit or empty value); otherwise it returns a populated record,
\* whatever the battery probe and the candidate probes did.
C10_NullIffBothEssentialFailed ==
    InfoReturned =>
        /\ (ret = "None") <=> (~call.model_ok /\ ~call.version_ok)
        /\ ret \in {"None", "dict"}
        /\ ret = "dict" =>
              /\ out.info.serial = call.serial
              /\ (out.info.model # NA) <=> call.model_ok
              /\ (out.info.version # NA) <=> call.version_ok

C10_Witness ==
    /\ InfoReturned
    /\ ret = "dict"
    /\ ~call.model_ok
    /\ call.version_ok
    /\ out.info.battery_level = NA
    /\ out.best_display_name_found = None

\* The batch worker is running, or has just returned.
BatchRunning == pc \in {"batch_loop", "batch_uninstall", "batch_fallback", "batch_disable"}
BatchReturned == pc = "returned" /\ call.name = "_perform_uninstall_threaded"
InBatch == BatchRunning \/ BatchReturned

\* The manager calls the worker has issued for the target of turn i.
CallsFor(i, op) == {j \in DOMAIN out.log : out.log[j].i = i /\ out.log[j].op = op}

\* The turns whose outcome has been recorded.
Recorded == 1..(out.i - 1)

\* C1: for every target of the batch, when uninstall_package reports success
\* the outcome is 'success' and disable_package is never called for it; when
\* uninstall fails and disable_package succeeds the outcome is 'disabled';
\* when both fail the outcome is 'failed'.
C1_UninstallThenDisable ==
    InBatch =>
        /\ \A i \in 1..Len(call.packages) : \A j \in CallsFor(i, "uninstall") :
              (out.log[j].done /\ out.log[j].ok) => CallsFor(i, "disable") = {}
        /\ \A i \in Recorded \cap 1..Len(call.packages) :
              \E j \in CallsFor(i, "uninstall") :
                 LET p == call.packages[i]
                     u == out.log[j]
                 IN  /\ u.done
                     /\ u.ok => out.results[p] = "success"
                     /\ ~u.ok =>
                          \E k \in CallsFor(i, "disable") :
                             /\ out.log[k].done
                             /\ out.log[k].ok => out.results[p] = "disabled"
                             /\ ~out.log[k].ok => out.results[p] = "failed"

C1_Witness ==
    /\ BatchReturned
    /\ \E i, k \in 1..Len(call.packages) :
          /\ out.results[call.packages[i]] = "success"
          /\ CallsFor(i, "disable") = {}
          /\ out.results[call.packages[k]] = "disabled"
          /\ CallsFor(k, "disable") # {}

Range(f) == {f[x] : x \in DOMAIN f}

\* What the log says of the target of turn i: did its uninstall, did its
\* disable succeed.
Succeeded(i, op) == \E j \in CallsFor(i, op) : out.log[j].done /\ out.log[j].ok

\* The batch of the example: A uninstalls, B needs the fallback, C fails both.
ExampleBatch ==
    /\ call.packages = <<"com.a", "com.b", "com.c">>
    /\ Succeeded(1, "uninstall")
    /\ ~Succeeded(2, "uninstall") /\ Succeeded(2, "disable")
    /\ ~Succeeded(3, "uninstall") /\ ~Succeeded(3, "disable")

\* At every point of a batch exactly the targets of the turns taken so far
\* have an outcome, and a returned batch has taken every turn.
C2_EveryTargetRecorded ==
    InBatch =>
        /\ out.i \in 1..(Len(call.packages) + 1)
        /\ DOMAIN out.results = {call.packages[i] : i \in Recorded}
        /\ Range(out.results) \subseteq {"success", "disabled", "failed"}
        /\ BatchReturned =>
              /\ DOMAIN out.results = Range(call.packages)
              /\ \A i \in 1..Len(call.packages) : CallsFor(i, "uninstall") # {}
              /\ ExampleBatch =>
                    out.results = ("com.a" :> "success") @@ ("com.b" :> "disabled")
                                      @@ ("com.c" :> "failed")

\* C2: a batch over any list of targets runs to completion with exactly one
\* outcome in {success, disabled, failed} recorded for every target; a failure
\* on one target never aborts or skips a later target; for [A, B, C] where A
\* uninstalls, B needs the disable fallback and C fails both, the result is
\* {A: success, B: disabled, C: failed}.
C2_BatchCompletes == [](C2_EveryTargetRecorded) /\ (BatchRunning ~> BatchReturned)

C2_Witness ==
    /\ BatchReturned
    /\ ExampleBatch
    /\ out.results = ("com.a" :> "success") @@ ("com.b" :> "disabled")
                        @@ ("com.c" :> "failed")

\* C3: within one batch the targets are processed one after the other in input
\* order: every manager call but the last issued has returned, so at most one
\* command of the batch is in flight, and the calls follow the input list,
\* uninstall before disable, no target skipped.
C3_SequentialInOrder ==
    InBatch =>
        LET log == out.log IN
        /\ \A j \in 1..(Len(log) - 1) : log[j].done
        /\ Cardinality({j \in DOMAIN log : ~log[j].done}) <= 1
        /\ \A j \in DOMAIN log : log[j].package = call.packages[log[j].i]
        /\ Len(log) > 0 => (log[1].i = 1 /\ log[1].op = "uninstall")
        /\ \A j \in 1..(Len(log) - 1) :
              \/ log[j + 1].i = log[j].i + 1 /\ log[j + 1].op = "uninstall"
              \/ /\ log[j + 1].i = log[j].i
                 /\ log[j].op = "uninstall" /\ log[j + 1].op = "disable"

C3_Witness ==
    /\ pc = "batch_uninstall"
    /\ out.i = 2
    /\ Len(out.log) = 3
    /\ ~out.log[3].done
    /\ out.log[1].done /\ out.log[2].done

\* The value an operation gives back when it does nothing: an empty list,
\* False, or None.
FailureValue ==
    CASE call.name \in {"list_devices", "list_packages"} ->
            ret = "list" /\ out.list = <<>>
      [] call.name \in {"connect_device", "reboot_device", "power_off_device",
                        "install_apk", "uninstall_package", "disable_package"} ->
            ret = "False"
      [] call.name \in {"get_device_info", "get_package_details", "start_logcat"} ->
            ret = "None"
      [] call.name = "_run_adb_command" ->
            out.stdout = None /\ out.returncode # 0
      [] OTHER -> FALSE

\* C5: when the availability probe of __init__ found the tool not callable,
\* then after any sequence of operations no subprocess has been spawned (no
\* subprocess.run, no Popen, no logcat worker thread), no operation goes past
\* its first check, and each returns its failure value (empty list, False or
\* None).
C5_UnavailableShortCircuits ==
    ~adb_available =>
        /\ ~spawned
        /\ ran = 0
        /\ logcat_process = "None"
        /\ logcat_threads = <<>>
        /\ pc \in {"ready", "returned"}
        /\ pc = "returned" => FailureValue

C5_Witness ==
    /\ ~adb_available
    /\ pc = "returned"
    /\ call.name = "start_logcat"
    /\ call.serial # ""
    /\ ret = "None"
    /\ Len(notes) = 1

\* get_device_info is in, or has returned from, its loop over the candidates.
InCandidates == call.name = "get_device_info" /\ pc = "info_props"
InfoRecord == InfoReturned /\ ret = "dict"

\* The candidate chosen so far is the first one the selection rule accepts.
FirstMatchWins ==
    (InCandidates \/ InfoRecord) => out.best_display_name_found = call.first_eligible

\* C11 as stated: the display name of the record is the value of the first
\* candidate, in priority order, whose value is non-empty and differs from the
\* model value or whose key contains 'marketname'.
C11_DisplayNameIsFirstEligible ==
    (InfoRecord /\ call.first_eligible # None) =>
        out.info.display_name = call.first_eligible

\* C11, amended: the candidate chosen is the first one, in priority order, whose
\* value is non-empty and differs from the model value or whose key contains
\* 'marketname', and no later candidate replaces it; the display name is that
\* value unless the value is the literal 'N/A' or 'Error', in which case, as
\* when no candidate is chosen, it is the model, or the serial when the model
\* was not fetched or is itself 'N/A' or 'Error'.
C11_FirstEligibleUnlessSentinel ==
    /\ FirstMatchWins
    /\ InfoRecord =>
          out.info.display_name =
              IF call.first_eligible \notin {None, "N/A", "Error"}
              THEN call.first_eligible
              ELSE IF call.model_ok /\ call.model \notin {"N/A", "Error"}
              THEN call.model ELSE call.serial

C11_Witness ==
    /\ InfoRecord
    /\ out.info.model = "SM-G960F"
    /\ call.first_eligible = "starlte"
    /\ out.info.display_name = "starlte"

\* C12 as stated: in every record get_device_info returns the display name is
\* never the sentinel, so also not when the model probe or a candidate probe
\* succeeded: with model 'SM-G960F' and a candidate chosen with 'Galaxy S9' it
\* is 'Galaxy S9'; when the model probe succeeds and no candidate is chosen it
\* is the model; when neither a candidate nor the model is available it is the
\* serial.
C12_DisplayNameNeverSentinel ==
    InfoRecord =>
        /\ out.info.display_name \notin {NA, ""}
        /\ (call.model = "SM-G960F" /\ call.first_eligible = "Galaxy S9")
              => out.info.display_name = "Galaxy S9"
        /\ (call.model_ok /\ call.first_eligible = None)
              => out.info.display_name = call.model
        /\ (~call.model_ok /\ call.first_eligible = None)
              => out.info.display_name = call.serial

\* C12, amended: as stated, except that a model probe that printed the literal
\* 'N/A' or 'Error' counts as no model: the display name is then the serial.
C12_NeverSentinelModelUnlessLiteral ==
    InfoRecord =>
        /\ out.info.display_name \notin {NA, ""}
        /\ (call.model = "SM-G960F" /\ call.first_eligible = "Galaxy S9")
              => out.info.display_name = "Galaxy S9"
        /\ (call.model_ok /\ call.first_eligible = None)
              => out.info.display_name =
                    IF call.model \in {"N/A", "Error"} THEN call.serial ELSE call.model
        /\ (~call.model_ok /\ call.first_eligible = None)
              => out.info.display_name = call.serial

C12_Witness ==
    /\ InfoRecord
    /\ out.info.model = "SM-G960F"
    /\ call.first_eligible = "Galaxy S9"
    /\ out.info.display_name = "Galaxy S9"

(***************************************************************************)
(* C13: the device listing parser.                                         *)
(***************************************************************************)

ListingReturned == pc = "returned" /\ call.name = "list_devices"

\* list_devices ran adb devices, which exited with status 0.
ListingSucceeded ==
    ListingReturned /\ adb_available /\ call.o.kind = "exit" /\ call.o.rc = 0

\* The non-blank lines of the listing, without a header in the first line.
DataLines ==
    LET lines == Split(Strip(call.o.out), "\n")
        kept == [i \in 1..Len(lines) |->
                    ~(i = 1 /\ Contains("List of devices attached", lines[1]))
                    /\ Strip(lines[i]) # ""]
    IN  SelectSeq([i \in 1..Len(lines) |-> [at |-> i, text |-> Strip(lines[i])]],
                  LAMBDA l : kept[l.at])

\* Every whitespace-separated token of a line.
Tokens(line) == SplitFields(line, Len(line))

EndsWith(s, pat) ==
    Len(pat) <= Len(s) /\ SubSeq(s, Len(s) - Len(pat) + 1, Len(s)) = pat

\* The parse warnings issued, in order.
ParseWarnings ==
    SelectSeq(notes, LAMBDA n : /\ n.level = "warning"
                                /\ StartsWith(n.msg, "Warning: Could not fully parse"))

WellFormed == SelectSeq(DataLines, LAMBDA l : Len(Tokens(l.text)) >= 2)

Malformed == SelectSeq(DataLines, LAMBDA l : Len(Tokens(l.text)) < 2)

\* C13: a successful listing gives one record for each data line with at least
\* two tokens, in line order, with a non-empty serial (the first token), and a
\* description that is the whole rest of the line after the second token; each
\* data line with fewer tokens gives one warning and no record, and the lines
\* after it are parsed all the same.
C13_OneRecordPerWellFormedLine ==
    ListingSucceeded =>
        /\ Len(out.list) = Len(WellFormed)
        /\ \A i \in 1..Len(WellFormed) :
              LET line == WellFormed[i].text
                  rec == out.list[i]
              IN  /\ rec.serial # ""
                  /\ rec.serial = Tokens(line)[1]
                  /\ EndsWith(line, rec.description)
                  /\ Tokens(rec.description)
                        = SubSeq(Tokens(line), 3, Len(Tokens(line)))
        /\ Len(ParseWarnings) = Len(Malformed)
        /\ \A i \in 1..Len(Malformed) :
              ParseWarnings[i].msg = "Warning: Could not fully parse device line: '"
                                    \o Malformed[i].text \o "'"

\* A listing with a one-token line before a line with a serial, a state and a
\* description of two words.
C13_Witness ==
    /\ ListingSucceeded
    /\ Len(Malformed) = 1 /\ Len(WellFormed) = 1
    /\ Malformed[1].at < WellFormed[1].at
    /\ Len(out.list) = 1
    /\ out.list[1].description = "usb:1-1 product:x"
    /\ Len(ParseWarnings) = 1

(***************************************************************************)
(* C14: the header of the listing.                                         *)
(***************************************************************************)

\* The positions of the header among the lines of the listing.
HeaderAt ==
    LET lines == Split(Strip(call.o.out), "\n") IN
    {i \in 1..Len(lines) : Contains("List of devices attached", lines[i])}

\* The records that were built from a header line.
FromHeader ==
    {i \in 1..Len(out.list) :
        /\ out.list[i].serial = "List"
        /\ out.list[i].state = "of"
        /\ out.list[i].description = "devices attached"}

\* C14 as stated: no record returned by list_devices is built from the header
\* line 'List of devices attached', at whatever line the header stands.
C14_HeaderNeverARecord == ListingSucceeded => FromHeader = {}

\* C14, amended: the header is discarded when it is the first line of the
\* output; a header at a later line is parsed like any other line and gives a
\* record.
C14_FirstLineHeaderDiscarded ==
    ListingSucceeded => Cardinality(FromHeader) = Cardinality(HeaderAt \ {1})

\* A listing that starts with the header and gives a record for its one device.
C14_Witness ==
    /\ ListingSucceeded
    /\ HeaderAt = {1}
    /\ Len(out.list) = 1 /\ out.list[1].serial = "emulator-5554"

(***************************************************************************)
(* C15: the state of a device record.                                      *)
(***************************************************************************)

DeviceStates == {"device", "offline", "unauthorized", "unknown"}

\* C15 as stated: the state of every record returned by list_devices is one
\* of device, offline, unauthorized, unknown.
C15_StateInEnumeration ==
    ListingReturned => \A i \in 1..Len(out.list) : out.list[i].state \in DeviceStates

\* C15, amended: the state of every record returned by list_devices is the
\* second token of its line, unchanged, whatever that token is.
C15_StateIsSecondToken ==
    ListingSucceeded =>
        /\ Len(out.list) = Len(WellFormed)
        /\ \A i \in 1..Len(WellFormed) :
              out.list[i].state = Tokens(WellFormed[i].text)[2]

\* A listing with a device in recovery: the record's state is 'recovery'.
C15_Witness ==
    /\ ListingSucceeded
    /\ \E i \in 1..Len(out.list) :
          out.list[i].serial = "abc" /\ out.list[i].state = "recovery"

(***************************************************************************)
(* C16: the battery field.                                                 *)
(***************************************************************************)

\* What follows 'level:' on a line of the dump, up to a further colon.
LevelSuffix(line) == Strip(SplitOnce(SubSeq(line, 7, Len(line)), ":")[1])

NoLevelLine == call.level_line \in {None, "<failed>"}

\* The battery probe of a call to get_device_info has just returned.
BatteryProbed == pc = "info_battery" /\ pc' = "info_props"

\* C16: the battery field of a returned record is the text after 'level:' on
\* the first line of the dump that begins with 'level:', followed by '%'
\* ('  level: 87' gives '87%'), whatever later lines say; without such a line
\* the field is the sentinel, the probe reports no error for a dump that
\* exited with status 0, no parse warning is ever issued, and the record is
\* returned exactly when the model or the version was fetched.
C16_BatteryFromFirstLevelLine ==
    /\ [](InfoRecord =>
            /\ out.info.battery_level =
                  IF NoLevelLine THEN NA ELSE LevelSuffix(call.level_line) \o "%"
            /\ call.level_line = "level: 87" => out.info.battery_level = "87%")
    /\ [](InfoReturned => (ret = "dict" <=> (call.model_ok \/ call.version_ok)))
    /\ [][BatteryProbed /\ call'.level_line = None =>
            /\ out'.info.battery_level = NA
            /\ \A i \in (Len(notes) + 1)..Len(notes') : notes'[i].level # "error"]_vars
    /\ [](\A i \in 1..Len(notes) :
            ~StartsWith(notes[i].msg, "Warning: Could not parse battery level"))

\* A record whose battery dump had two level lines: the first one counts.
C16_Witness ==
    /\ InfoRecord
    /\ call.level_line = "level: 9"
    /\ out.info.battery_level = "9%"

\* A record returned although the battery dump had no level line.
C16_WitnessNoLevel ==
    /\ InfoRecord
    /\ call.level_line = None
    /\ out.info.battery_level = NA

(***************************************************************************)
(* C17: the permissions of a package.                                      *)
(***************************************************************************)

\* get_package_details parsed a dump that exited with status 0.
DetailsParsed ==
    /\ pc = "returned" /\ call.name = "get_package_details" /\ ret = "dict"
    /\ call.o.kind = "exit" /\ call.o.rc = 0

FieldPrefixes ==
    {"versionName=", "versionCode=", "installerPackageName=",
     "firstInstallTime=", "lastUpdateTime=", "userId="}

\* The lines a reader of the dump sees while reading permissions: the mode is
\* entered at a 'requested permissions:' line and left at the first line that
\* is 'install permissions:', 'runtime permissions:' or blank; lines starting
\* with one of `fields` are passed over.
RECURSIVE SeenInMode(_, _, _)
SeenInMode(lines, reading, fields) ==
    IF lines = <<>> THEN <<>>
    ELSE LET line == Strip(Head(lines)) IN
         IF StartsWith(line, "requested permissions:")
         THEN SeenInMode(Tail(lines), TRUE, fields)
         ELSE IF ~reading \/ \E f \in fields : StartsWith(line, f)
         THEN SeenInMode(Tail(lines), reading, fields)
         ELSE IF \/ line = ""
                 \/ StartsWith(line, "install permissions:")
                 \/ StartsWith(line, "runtime permissions:")
         THEN SeenInMode(Tail(lines), FALSE, fields)
         ELSE <<line>> \o SeenInMode(Tail(lines), TRUE, fields)

\* C17 as stated: the permissions list is, in order, every non-empty line seen
\* between a 'requested permissions:' line and the first following line that
\* is 'install permissions:', 'runtime permissions:' or blank, and nothing else.
C17_PermissionsAreLinesInMode ==
    DetailsParsed =>
        out.permissions = SeenInMode(SplitLines(Strip(call.o.out)), FALSE, {})

\* C17, amended: as stated, except that a line starting with one of the six
\* field prefixes is read as that field also while permissions are being read:
\* it is not appended and does not end the list.
C17_PermissionsExceptFieldLines ==
    DetailsParsed =>
        out.permissions = SeenInMode(SplitLines(Strip(call.o.out)), FALSE, FieldPrefixes)

\* A dump whose list of permissions is ended by a blank line, resumed by a
\* second marker and ended by 'runtime permissions:'.
C17_Witness ==
    /\ DetailsParsed
    /\ out.permissions = <<"android.permission.INTERNET", "android.permission.VIBRATE">>
    /\ out.uid = "7"

(***************************************************************************)
(* C18: the verdict of reboot_device and power_off_device.                 *)
(***************************************************************************)

\* reboot_device with a valid mode, or power_off_device, ran its command.
PowerCommandSent ==
    /\ pc = "returned" /\ adb_available /\ call.name \in {"reboot_device", "power_off_device"}
    /\ call.serial # ""
    /\ call.name = "reboot_device" => call.mode \in ValidModes

\* C18: reboot_device with a valid mode and power_off_device return success
\* exactly when the process exited with code 0 and wrote nothing but blank
\* space to its error stream, whatever it wrote to its output stream; they run
\* one command and no other.
C18_SuccessIffCleanExit ==
    PowerCommandSent =>
        /\ ret = "True" <=>
              (call.o.kind = "exit" /\ call.o.rc = 0 /\ Strip(call.o.err) = "")
        /\ ret \in {"True", "False"}
        /\ ran = 1

\* power_off_device succeeded although the process printed text, and
\* reboot_device failed for error text after a zero exit code.
C18_Witness ==
    /\ PowerCommandSent /\ call.name = "power_off_device"
    /\ call.o.kind = "exit" /\ call.o.out = "Done\n" /\ call.o.err = "\n"
    /\ ret = "True"

C18_WitnessFailure ==
    /\ PowerCommandSent /\ call.name = "reboot_device"
    /\ call.o.kind = "exit" /\ call.o.rc = 0 /\ call.o.err = "error: device offline\n"
    /\ ret = "False"

(***************************************************************************)
(* C19, C20: one log stream at a time, and its cancellation.               *)
(***************************************************************************)

\* start_logcat was called for a device while a stream's child was running.
StartedWhileActive ==
    /\ pc = "returned" /\ call.name = "start_logcat"
    /\ adb_available /\ call.serial # ""
    /\ call.live # {}

\* C19: at most one child process of a log stream runs at any time, and a call
\* of start_logcat made while a stream is active returns normally with the
\* child of every earlier stream no longer running: the new stream's child,
\* which the newest worker opens, comes after.
C19_OneStreamAtATime ==
    /\ Cardinality(LiveChildren) <= 1
    /\ StartedWhileActive =>
          /\ ret = "None"
          /\ Len(logcat_threads) > Cardinality(call.live)
          /\ \A t \in 1..(Len(logcat_threads) - 1) : ~logcat_threads[t].alive

\* Two children run at once.
C19_TwoStreams == Cardinality(LiveChildren) = 2

\* The manager's stop operation was called while a stream's child was running.
StoppedWhileActive ==
    /\ pc = "returned"
    /\ \/ call.name = "stop_logcat"
       \/ call.name = "start_logcat" /\ adb_available /\ call.serial # ""
    /\ call.live # {}

\* C20: after the manager's stop operation, reached from the Stop button or
\* from start_logcat while a stream is active, the operation has returned
\* normally, no child that ran when it was called is running, and once no
\* child runs the process handle is cleared.
C20_StopEndsTheStream ==
    StoppedWhileActive =>
        /\ ret = "None"
        /\ \A t \in call.live : ~logcat_threads[t].alive
        /\ LiveChildren = {} => logcat_process = "None"

\* The Stop button was pressed while a stream ran: the call raised, the child
\* runs on and the handle is kept.
C20_StopRaised ==
    /\ StoppedWhileActive /\ call.name = "stop_logcat"
    /\ ret = "AttributeError"
    /\ LiveChildren = call.live
    /\ logcat_process = "Popen"

(***************************************************************************)
(* C21: a notification sink that throws.                                   *)
(***************************************************************************)

\* What the operation that has returned gives for its inputs when every
\* message is taken by the sink.
WithQuietSink ==
    LET c == call
        plain(v) == [ret |-> v.ret, out |-> NoOut, notes |-> v.notes]
        listed(v) == [ret |-> v.ret, out |-> [list |-> v.list], notes |-> v.notes]
    IN  CASE c.name = "_run_adb_command" ->
                LET r == RunAdbCommand(adb_available, c.command, c.o)
                IN  [ret |-> "tuple", out |-> r, notes |-> r.notes]
          [] c.name = "reboot_device" ->
                plain(RebootDevice(adb_available, c.serial, c.mode, c.o))
          [] c.name = "power_off_device" ->
                plain(PowerOffDevice(adb_available, c.serial, c.o))
          [] c.name = "install_apk" ->
                plain(InstallApk(adb_available, c.serial, c.apk_path, c.exists, c.o))
          [] c.name = "uninstall_package" ->
                plain(UninstallPackage(adb_available, c.serial, c.package_name, c.o))
          [] c.name = "disable_package" ->
                plain(DisablePackage(adb_available, c.serial, c.package_name, c.o))
          [] c.name = "connect_device" ->
                plain(ConnectDevice(adb_available, c.address, c.o))
          [] c.name = "list_devices" -> listed(ListDevices(adb_available, c.o))
          [] c.name = "list_packages" ->
                listed(ListPackages(adb_available, c.serial, c.user_only, c.o))
          [] c.name = "get_package_details" ->
                LET v == GetPackageDetails(adb_available, c.serial, c.package_name, c.o)
                IN  [ret |-> v.ret, out |-> v.details, notes |-> v.notes]

\* C21: whatever the sink does with a message, the operation is not left by
\* an exception: it makes every call of the sink it makes with a quiet sink
\* and returns the same value; each call that the sink answered by throwing
\* shows as one line on the console and nowhere else.
C21_SinkFailureSwallowed ==
    pc = "returned" =>
        /\ ret # "Exception"
        /\ ret = WithQuietSink.ret
        /\ out = WithQuietSink.out
        /\ notes = WithQuietSink.notes
        /\ status_callback = "raises" =>
              /\ Len(console) = Len(notes)
              /\ \A i \in 1..Len(console) :
                    StartsWith(console[i], "Error calling status callback")
        /\ status_callback = "ok" => console = <<>>

\* uninstall_package failed with a sink that threw at each of its messages.
C21_Witness ==
    /\ pc = "returned" /\ status_callback = "raises"
    /\ call.name = "uninstall_package"
    /\ ret = "False"
    /\ Len(notes) >= 2 /\ Len(console) = Len(notes)

(***************************************************************************)
(* C22: one failure message for each failure.                              *)
(***************************************************************************)

\* An operation has returned its failure value: False from the operations
\* that answer with a boolean, None from get_device_info.
OperationFailed ==
    /\ pc = "returned"
    /\ \/ /\ call.name \in {"connect_device", "reboot_device", "power_off_device",
                            "install_apk", "uninstall_package", "disable_package"}
          /\ ret = "False"
       \/ call.name = "get_device_info" /\ ret = "None"

\* C22: an operation that fails (tool unavailable, invalid argument, process
\* failure, exit code 0 without a success marker, no model and no version)
\* has handed the sink exactly one message of error severity.
C22_OneFailureMessage == OperationFailed => Cardinality(ErrorNotes(notes)) = 1

\* uninstall_package failed after a zero exit code whose output had neither
\* 'success' nor 'failure': the sink was told nothing of it.
C22_SilentFailure ==
    /\ OperationFailed /\ adb_available
    /\ call.name = "uninstall_package" /\ call.serial # "" /\ call.package_name # ""
    /\ call.o.kind = "exit" /\ call.o.rc = 0 /\ Strip(call.o.err) = ""
    /\ ErrorNotes(notes) = {}
    /\ Len(notes) = 1

\* get_device_info failed with more than one message of error severity.
C22_RepeatedFailure ==
    /\ OperationFailed /\ call.name = "get_device_info"
    /\ Cardinality(ErrorNotes(notes)) > 2

\* An operation failed without a word because the tool is not available.
C22_UnavailableSilent ==
    /\ OperationFailed /\ ~adb_available /\ notes = <<>>

(***************************************************************************)
(* C23: the life of a log stream.                                          *)
(***************************************************************************)

\* Streams were started and every worker has left its read loop and ended.
WorkersEnded ==
    /\ logcat_threads # <<>>
    /\ \A t \in DOMAIN logcat_threads : logcat_threads[t].pc = "dead"

\* C23: when the workers of the streams started so far have left their read
\* loops, after a cancellation or because their child processes ended, the
\* manager is idle again: no child runs and the process handle is cleared.
C23_StreamReturnsToIdle ==
    WorkersEnded => (LiveChildren = {} /\ logcat_process = "None")

\* The child of the only stream ended by itself and the worker left its loop
\* without a word; the handle still holds the dead process.
C23_HandleKept ==
    /\ Len(logcat_threads) = 1
    /\ logcat_threads[1].pc = "dead" /\ ~logcat_threads[1].alive
    /\ logcat_threads[1].notes = <<>>
    /\ logcat_process = "Popen"

(***************************************************************************)
(* The window while a worker is changing the device.                       *)
(***************************************************************************)

\* The threads that send a command that changes the device.
MutatingTargets ==
    {"_perform_reboot_threaded", "_perform_power_off_threaded",
     "_perform_install_apk_threaded", "_perform_uninstall_threaded",
     "_perform_uninstall_threaded loop"}

Mutating(g) == {t \in BagToSet(g.threads) : t.target \in MutatingTargets}

\* How many such threads are running against a device.
MutatingCount(g, serial) ==
    LET ts == {t \in Mutating(g) : t.serial = serial}
        RECURSIVE Sum(_)
        Sum(S) == IF S = {} THEN 0
                  ELSE LET t == CHOOSE x \in S : TRUE
                       IN  CopiesIn(t, g.threads) + Sum(S \ {t})
    IN  Sum(ts)

\* C24: while a reboot, power-off, install or batch uninstall worker runs
\* against the selected device, the controls that issue device-mutating
\* commands are disabled, and no second such command is issued against that
\* device before the worker has finished.
C24_ControlsDisabledWhileWorking ==
    /\ \A t \in Mutating(gui) :
           t.serial = gui.current_device_serial =>
               /\ ~gui.reboot_buttons
               /\ ~gui.install_apk_button
               /\ ~gui.uninstall_selected_button
    /\ \A t \in Mutating(gui) : MutatingCount(gui, t.serial) = 1

\* Two device-mutating workers run against the same device at once.
C24_SecondCommandIssued ==
    \E t \in Mutating(gui) : MutatingCount(gui, t.serial) >= 2

\* C25: in every state of the window the Install button is enabled only
\* if a device is selected and an APK file is selected.
C25_InstallNeedsDeviceAndFile ==
    gui.install_apk_button =>
        (gui.current_device_serial # "None" /\ gui.selected_apk_path # "None")

\* Install is enabled with a file chosen and no device selected.
C25_InstallWithoutDevice ==
    /\ gui.install_apk_button
    /\ gui.selected_apk_path # "None"
    /\ gui.current_device_serial = "None"

(***************************************************************************)
(* The device information the window shows.                                *)
(***************************************************************************)

\* Every fetch thread has ended and its callback has run.
FetchesDone ==
    /\ Running(gui, "_fetch_and_update_device_info_threaded") = {}
    /\ \A i \in DOMAIN gui.afters : gui.afters[i].fn # "_do_update_device_info_gui"

\* C29: once all device-info fetch workers have completed, the information
\* shown (the info labels and the 'Selected Device' label) is that of the
\* currently selected device, never that of a device selected before it.
C29_DisplayIsSelectedDevice ==
    FetchesDone =>
        \A serial \in {"A", "B"} :
            serial # gui.current_device_serial =>
                /\ gui.info_labels.serial # serial
                /\ gui.selected_device_label # SelectedDeviceText(DeviceInfo(serial))

\* The fetches are over, one device is selected and the labels show the other.
C29_StaleDisplay ==
    /\ FetchesDone
    /\ gui.current_device_serial \in {"A", "B"}
    /\ gui.info_labels.serial \in {"A", "B"} \ {gui.current_device_serial}
    /\ gui.selected_device_label = SelectedDeviceText(gui.info_labels)

(***************************************************************************)
(* The log streams under every interleaving of callers and workers.        *)
(***************************************************************************)

\* The children that run and that self.logcat_process does not refer to.
Orphans == {t \in LiveChildren : ~logcat_threads[t].handle}

\* C26: under every interleaving of the caller and the log workers, two
\* start_logcat calls never leave two child processes alive at once, and
\* every live child is the one the manager's process handle refers to.
C26_NoSecondChildNoOrphan ==
    /\ Cardinality(LiveChildren) <= 1
    /\ Orphans = {}

\* start_logcat was called again before the first worker had recorded its
\* handle: both children run and the handle refers to the second only.
C26_OrphanedChild ==
    /\ Len(logcat_threads) = 2
    /\ LiveChildren = {1, 2}
    /\ Orphans = {1}
    /\ logcat_process = "Popen"

StoppedTwice ==
    /\ pc = "returned" /\ call.name = "stop_logcat"
    /\ call.live # {}
    /\ \A t \in call.live : logcat_threads[t].pc = "dead"

\* How many times 'Logcat stopped.' was reported, by the caller and the workers.
StoppedReports ==
    LET said(ns) == Cardinality({i \in DOMAIN ns : ns[i].msg = "Logcat stopped."})
        RECURSIVE Sum(_)
        Sum(t) == IF t = 0 THEN 0 ELSE said(logcat_threads[t].notes) + Sum(t - 1)
    IN  said(notes) + Sum(Len(logcat_threads))

\* C28: when the Stop button and the finally clause of the worker both run
\* the stop operation, neither ends in an error, the child is terminated and
\* 'Logcat stopped.' is reported exactly once for the stream.
C28_ConcurrentStopClean ==
    StoppedTwice =>
        /\ ret = "None"
        /\ \A t \in call.live : ~logcat_threads[t].alive
        /\ Cardinality(call.live) = 1 => StoppedReports = 1

\* Both calls raised: the Stop button got AttributeError, the worker left
\* with its child running, and nothing was reported.
C28_BothRaised ==
    /\ StoppedTwice
    /\ ret = "AttributeError"
    /\ call.live = {1} /\ logcat_threads[1].alive
    /\ StoppedReports = 0

(***************************************************************************)
(* C30: the verdict of disable_package.                                    *)
(***************************************************************************)

\* disable_package ran its command and returned.
DisableRan ==
    /\ pc = "returned" /\ call.name = "disable_package"
    /\ adb_available /\ call.serial # "" /\ call.package_name # ""

\* The process exited with code 0 and wrote something other than blanks.
CleanReply == call.o.kind = "exit" /\ call.o.rc = 0 /\ Strip(call.o.out) # ""

\* The output holds the line pm prints when it has disabled the package.
ConfirmsDisabled ==
    Contains("Package " \o call.package_name \o " new state: disabled", call.o.out)

UnexpectedWarned ==
    \E i \in DOMAIN notes :
        /\ notes[i].level = "warning"
        /\ notes[i].msg = "Disable command sent, but output was unexpected"

\* C30: disable_package returns success exactly when the process exited
\* with code 0 and non-blank output; output confirming 'new state: disabled'
\* for the package gives success without the 'unexpected output' warning,
\* any other non-blank output gives success with it, and blank output or a
\* non-zero exit gives failure.
C30_DisableVerdict ==
    DisableRan =>
        /\ (ret = "True") <=> CleanReply
        /\ (ret = "False") <=> ~CleanReply
        /\ (CleanReply /\ ConfirmsDisabled) => ~UnexpectedWarned
        /\ (CleanReply /\ ~ConfirmsDisabled) => UnexpectedWarned
        /\ ~CleanReply => ~UnexpectedWarned

\* pm confirmed that com.B is disabled, and the manager warns that the
\* output was unexpected.
C30_ConfirmedButWarned ==
    /\ DisableRan /\ call.package_name = "com.B"
    /\ CleanReply /\ ConfirmsDisabled
    /\ ret = "True"
    /\ UnexpectedWarned

\* The same verdict for the packages whose names have no capital letter.
C30_LowerCaseVerdict ==
    (DisableRan /\ call.package_name = Lower(call.package_name)) =>
        /\ (ret = "True") <=> CleanReply
        /\ (CleanReply /\ ConfirmsDisabled) => ~UnexpectedWarned
        /\ (CleanReply /\ ~ConfirmsDisabled) => UnexpectedWarned

====
